---- MODULE Spec2Model ----
(***************************************************************************)
(* A model of plutofilter (src/plutofilter.h): the surface views, the      *)
(* pixel codec, the colour transform, the blend and composite engines and  *)
(* the three-pass box blur, over a word-addressed pixel memory.            *)
(*                                                                         *)
(* A pixel is a 32-bit word (alpha 24..31, red 16..23, green 8..15, blue   *)
(* 0..7).  A surface is a record [pixels, width, height, stride] whose     *)
(* pixels field is the address of its first word in mem.  Every engine     *)
(* entry point is an operator from the memory at entry to the memory at    *)
(* return; an action is one call of one entry point.                       *)
(*                                                                         *)
(* A float is modelled with its 24-bit mantissa and the rounding of every  *)
(* operation; a standard deviation is an integer number of tenths.         *)
(***************************************************************************)
EXTENDS Integers, Sequences, FiniteSets, TLC

VARIABLES
    mem,    \* the caller's pixel memory: address -> 32-bit word
    pre,    \* mem as it was when the last call was entered
    call,   \* the last call: [op |-> name, ...its arguments]; op "none" before any
    arg,    \* the input the caller prepared for a value-returning function
    ret     \* what the last value-returning function returned

vars == <<mem, pre, call, arg, ret>>

(***************************************************************************)
(* Integer helpers with C semantics.  TLC's integers are 32-bit signed, so *)
(* a 32-bit pixel word is kept as its two 16-bit halves <<hi, lo>>: hi     *)
(* holds alpha and red, lo holds green and blue.                           *)
(***************************************************************************)
U16 == 2 ^ 16

Min(a, b) == IF a < b THEN a ELSE b
Max(a, b) == IF a > b THEN a ELSE b
Abs(a) == IF a < 0 THEN -a ELSE a

\* C integer division truncates toward zero.
CDiv(a, b) ==
    IF (a >= 0) = (b > 0) THEN Abs(a) \div Abs(b) ELSE -(Abs(a) \div Abs(b))

\* x >> n on an int (an arithmetic shift: floor division by 2^n).
Shr(x, n) == x \div (2 ^ n)

\* Bitwise or of two naturals.
RECURSIVE BitOr(_, _)
BitOr(a, b) ==
    IF a = 0 THEN b
    ELSE IF b = 0 THEN a
    ELSE (IF a % 2 = 1 \/ b % 2 = 1 THEN 1 ELSE 0) + 2 * BitOr(a \div 2, b \div 2)

(***************************************************************************)
(* Pixel codec.                                                            *)
(***************************************************************************)
PLUTOFILTER_ALPHA(pixel) == (pixel[1] \div 256) % 256
PLUTOFILTER_RED(pixel) == pixel[1] % 256
PLUTOFILTER_GREEN(pixel) == (pixel[2] \div 256) % 256
PLUTOFILTER_BLUE(pixel) == pixel[2] % 256

PLUTOFILTER_UNPACK_PIXEL(pixel) ==
    [r |-> PLUTOFILTER_RED(pixel), g |-> PLUTOFILTER_GREEN(pixel),
     b |-> PLUTOFILTER_BLUE(pixel), a |-> PLUTOFILTER_ALPHA(pixel)]

\* ((uint32_t)a << 24) | ((uint32_t)r << 16) | ((uint32_t)g << 8) | (uint32_t)b
\* for non-negative channel values: nothing is masked, so the bits of a
\* channel value above 255 are or-ed into the channel above it, and bits
\* shifted past bit 31 are lost.
PLUTOFILTER_PACK_PIXEL(r, g, b, a) ==
    LET low == BitOr(b, g * 256)
    IN  <<BitOr(BitOr(low \div U16, r), a * 256) % U16, low % U16>>

PackRGBA(p) == PLUTOFILTER_PACK_PIXEL(p.r, p.g, p.b, p.a)

PLUTOFILTER_PREMULTIPLY_PIXEL(p) ==
    [r |-> Shr(p.r * (p.a + 1), 8), g |-> Shr(p.g * (p.a + 1), 8),
     b |-> Shr(p.b * (p.a + 1), 8), a |-> p.a]

\* A faulty variant: the else branch is missing, alpha 0 leaves the channels alone.
UnpremultiplyNoZeroBranch(p) ==
    IF p.a # 0
    THEN [r |-> (255 * p.r) \div p.a, g |-> (255 * p.g) \div p.a,
          b |-> (255 * p.b) \div p.a, a |-> p.a]
    ELSE p

PLUTOFILTER_UNPREMULTIPLY_PIXEL(p) ==
    IF p.a # 0
    THEN [r |-> (255 * p.r) \div p.a, g |-> (255 * p.g) \div p.a,
          b |-> (255 * p.b) \div p.a, a |-> p.a]
    ELSE [r |-> 0, g |-> 0, b |-> 0, a |-> p.a]

PLUTOFILTER_CLAMP(v, lo, hi) == IF v < lo THEN lo ELSE IF v > hi THEN hi ELSE v

\* (uint8_t)CLAMP(v, 0, 255) of an int.
PLUTOFILTER_CLAMP_PIXEL(v) == PLUTOFILTER_CLAMP(v, 0, 255) % 256

\* Faulty variants: the rounding term 0x80 is missing; a plain shift.
Div255NoBias(x) == Shr(x + Shr(x, 8), 8)
Div255Shift(x) == Shr(x, 8)

plutofilter__div255(x) == Shr(x + Shr(x, 8) + 128, 8)

(***************************************************************************)
(* Surfaces.                                                               *)
(***************************************************************************)
plutofilter_surface_make(pixels, width, height, stride) ==
    [pixels |-> pixels, width |-> width, height |-> height, stride |-> stride]

\* A faulty variant: the offset is clipped, the size is not.
MakeSubNoSizeClip(surface, x, y, width, height) ==
    LET x1 == IF x > surface.width THEN surface.width ELSE x
        y1 == IF y > surface.height THEN surface.height ELSE y
    IN  plutofilter_surface_make(
            surface.pixels + (y1 * surface.stride + x1),
            width, height, surface.stride)

\* x, y, width and height are uint16_t.  y * stride + x is computed in
\* uint32_t; the surfaces of this model keep it below 2^31.
plutofilter_surface_make_sub(surface, x, y, width, height) ==
    LET x1 == IF x > surface.width THEN surface.width ELSE x
        y1 == IF y > surface.height THEN surface.height ELSE y
        w1 == IF x1 + width > surface.width
              THEN (surface.width - x1) % U16 ELSE width
        h1 == IF y1 + height > surface.height
              THEN (surface.height - y1) % U16 ELSE height
    IN  plutofilter_surface_make(
            surface.pixels + (y1 * surface.stride + x1),
            w1, h1, surface.stride)

PLUTOFILTER_GET_PIXEL(m, surface, x, y) ==
    m[surface.pixels + (y * surface.stride + x)]

PixelAddr(surface, x, y) == surface.pixels + (y * surface.stride + x)

(***************************************************************************)
(* The overlap policy: both (all three) surfaces get the smallest width    *)
(* and the smallest height.                                                *)
(***************************************************************************)
Resized(surface, width, height) ==
    [surface EXCEPT !.width = width, !.height = height]

PLUTOFILTER_OVERLAP_SURFACE(a, b) ==
    LET w == IF b.width < a.width THEN b.width ELSE a.width
        h == IF b.height < a.height THEN b.height ELSE a.height
    IN  <<Resized(a, w, h), Resized(b, w, h)>>

PLUTOFILTER_OVERLAP_SURFACE3(a, b, c) ==
    LET w1 == IF b.width < a.width THEN b.width ELSE a.width
        w == IF c.width < w1 THEN c.width ELSE w1
        h1 == IF b.height < a.height THEN b.height ELSE a.height
        h == IF c.height < h1 THEN c.height ELSE h1
    IN  <<Resized(a, w, h), Resized(b, w, h), Resized(c, w, h)>>

(***************************************************************************)
(* float.  A float is zero or neg * m * 2^e with a mantissa m of 24 bits   *)
(* (2^23 <= m < 2^24); every operation rounds its exact result to the      *)
(* nearest float, ties to the even mantissa.  The values of the model are  *)
(* far from the range where a float is subnormal or infinite.              *)
(***************************************************************************)
FZero == [neg |-> FALSE, m |-> 0, e |-> 0]

\* How many low bits n has above 24.
RECURSIVE ExcessBits(_)
ExcessBits(n) == IF n < 2 ^ 24 THEN 0 ELSE 1 + ExcessBits(n \div 2)

\* The float nearest to n * 2^e (n >= 0).  When low bits of the exact value
\* were dropped before, the lowest bit of n is set and n has 26 bits or more.
RECURSIVE FRound(_, _, _)
FRound(neg, n, e) ==
    IF n = 0 THEN FZero
    ELSE IF n < 2 ^ 23 THEN FRound(neg, 2 * n, e - 1)
    ELSE LET k == ExcessBits(n)
             q == n \div (2 ^ k)
             rest == n % (2 ^ k)
             up == k > 0 /\ (2 * rest > 2 ^ k \/ (2 * rest = 2 ^ k /\ q % 2 = 1))
             r == IF up THEN q + 1 ELSE q
         IN  IF r = 2 ^ 24 THEN [neg |-> neg, m |-> 2 ^ 23, e |-> e + k + 1]
             ELSE [neg |-> neg, m |-> r, e |-> e + k]

\* (float)n of an integer n, |n| < 2^24: exact.
FromInt(n) == FRound(n < 0, IF n < 0 THEN -n ELSE n, 0)

FNeg(a) == IF a.m = 0 THEN a ELSE [a EXCEPT !.neg = ~a.neg]

\* n with its lowest bit set when sticky.
Jam(n, sticky) == IF sticky /\ n % 2 = 0 THEN n + 1 ELSE n

\* The quotient n / den of two integers (n >= 0, 0 < den < 2^15) as a float:
\* long division to 26 bits, the remainder kept as the lowest bit.  It is
\* the float of a decimal literal and the result of (float)n / (float)den.
RECURSIVE LongDiv(_, _, _, _)
LongDiv(q, rem, den, e) ==
    IF q >= 2 ^ 25 THEN FRound(FALSE, Jam(q, rem # 0), e)
    ELSE LongDiv(2 * q + (2 * rem) \div den, (2 * rem) % den, den, e - 1)

FDivInt(n, den) ==
    IF n = 0 THEN FZero ELSE LongDiv(n \div den, n % den, den, 0)

\* a * b: the 48-bit product of the mantissas from their 12-bit halves.
FMul(a, b) ==
    IF a.m = 0 \/ b.m = 0 THEN FZero
    ELSE LET ah == a.m \div 4096
             al == a.m % 4096
             bh == b.m \div 4096
             bl == b.m % 4096
             mid == ah * bl + al * bh
             low == (mid % 4096) * 4096 + al * bl
             lo == low % (2 ^ 24)
             hi == ah * bh + mid \div 4096 + low \div (2 ^ 24)
         IN  \* the product is hi * 2^24 + lo, of 47 or 48 bits
             FRound(a.neg # b.neg,
                    Jam(8 * hi + lo \div (2 ^ 21), lo % (2 ^ 21) # 0),
                    a.e + b.e + 21)

\* |a| >= |b| for two floats that are not zero.
FMagGeq(a, b) == a.e > b.e \/ (a.e = b.e /\ a.m >= b.m)

\* a + b: the smaller operand is shifted to the exponent of the larger with
\* three more bits, the bits shifted out kept as the lowest bit.
FAdd(a, b) ==
    IF a.m = 0 THEN b
    ELSE IF b.m = 0 THEN a
    ELSE LET x == IF FMagGeq(a, b) THEN a ELSE b
             y == IF FMagGeq(a, b) THEN b ELSE a
             d == x.e - y.e
         IN  IF d > 26 THEN x
             ELSE LET ys == Jam((8 * y.m) \div (2 ^ d), (8 * y.m) % (2 ^ d) # 0)
                      sum == IF x.neg = y.neg THEN 8 * x.m + ys
                             ELSE 8 * x.m - ys
                  IN  FRound(x.neg, sum, x.e - 3)

FSub(a, b) == FAdd(a, FNeg(b))

\* (uint8_t)PLUTOFILTER_CLAMP(v, 0, 255) of a float v: the conversion
\* truncates.
ClampFloatPixel(v) ==
    IF v.m = 0 \/ v.neg THEN 0
    ELSE IF v.e > -16 THEN 255
    ELSE IF v.e < -24 THEN 0
    ELSE Min(v.m \div (2 ^ (-v.e)), 255)

(***************************************************************************)
(* Colour transform.  A matrix is a tuple of 20 floats, row-major.         *)
(***************************************************************************)
\* A faulty variant: the term of alpha is missing.
MatrixRowNoAlpha(u, matrix, row) ==
    FAdd(FAdd(FAdd(FMul(FromInt(u.r), matrix[row + 1]),
                   FMul(FromInt(u.g), matrix[row + 2])),
              FMul(FromInt(u.b), matrix[row + 3])),
         FMul(matrix[row + 5], FromInt(255)))

\* rr, gg, bb, aa: the products and the sums in float, left to right.
MatrixRow(u, matrix, row) ==
    FAdd(FAdd(FAdd(FAdd(FMul(FromInt(u.r), matrix[row + 1]),
                        FMul(FromInt(u.g), matrix[row + 2])),
                   FMul(FromInt(u.b), matrix[row + 3])),
              FMul(FromInt(u.a), matrix[row + 4])),
         FMul(matrix[row + 5], FromInt(255)))

\* The body of the loop of plutofilter_color_transform for one pixel word.
ColorTransformPixel(pixel, matrix) ==
    LET u == PLUTOFILTER_UNPREMULTIPLY_PIXEL(PLUTOFILTER_UNPACK_PIXEL(pixel))
        t == [r |-> ClampFloatPixel(MatrixRow(u, matrix, 0)),
              g |-> ClampFloatPixel(MatrixRow(u, matrix, 5)),
              b |-> ClampFloatPixel(MatrixRow(u, matrix, 10)),
              a |-> ClampFloatPixel(MatrixRow(u, matrix, 15))]
    IN  PackRGBA(PLUTOFILTER_PREMULTIPLY_PIXEL(t))

\* The float of the decimal literal n / 1000 or n / 10000.
Lit3(n) == FDivInt(n, 1000)
Lit4(n) == FDivInt(n, 10000)
FOne == FromInt(1)
FHalf == FDivInt(1, 2)

IdentityMatrix ==
    <<FOne, FZero, FZero, FZero, FZero,  FZero, FOne, FZero, FZero, FZero,
      FZero, FZero, FOne, FZero, FZero,  FZero, FZero, FZero, FOne, FZero>>

\* A faulty variant: the green row takes the coefficient of red for blue.
GrayscaleMatrixWrongRow(amount) ==
    LET inv_amount == FSub(FOne, amount)
        cr == FMul(amount, Lit4(2126))
        cg == FMul(amount, Lit4(7152))
        cb == FMul(amount, Lit4(722))
    IN  <<FAdd(inv_amount, cr), cg, cb, FZero, FZero,
          cr, FAdd(inv_amount, cg), cr, FZero, FZero,
          cr, cg, FAdd(inv_amount, cb), FZero, FZero,
          FZero, FZero, FZero, FOne, FZero>>

\* The matrix of plutofilter_color_transform_grayscale.
GrayscaleMatrix(amount) ==
    LET inv_amount == FSub(FOne, amount)
        cr == FMul(amount, Lit4(2126))
        cg == FMul(amount, Lit4(7152))
        cb == FMul(amount, Lit4(722))
    IN  <<FAdd(inv_amount, cr), cg, cb, FZero, FZero,
          cr, FAdd(inv_amount, cg), cb, FZero, FZero,
          cr, cg, FAdd(inv_amount, cb), FZero, FZero,
          FZero, FZero, FZero, FOne, FZero>>

\* The matrices of the other presets.
OpacityMatrix(amount) == [IdentityMatrix EXCEPT ![19] = amount]

BrightnessMatrix(amount) ==
    [IdentityMatrix EXCEPT ![1] = amount, ![7] = amount, ![13] = amount]

InvertMatrix(amount) ==
    LET scale == FSub(FOne, FMul(FromInt(2), amount))
    IN  [IdentityMatrix EXCEPT ![1] = scale, ![7] = scale, ![13] = scale,
                               ![5] = amount, ![10] = amount, ![15] = amount]

ContrastMatrix(amount) ==
    LET offset == FMul(FSub(FOne, amount), FHalf)
    IN  [IdentityMatrix EXCEPT ![1] = amount, ![7] = amount, ![13] = amount,
                               ![5] = offset, ![10] = offset, ![15] = offset]

SaturateMatrix(amount) ==
    <<FAdd(Lit3(213), FMul(Lit3(787), amount)),
      FSub(Lit3(715), FMul(Lit3(715), amount)),
      FSub(Lit3(72), FMul(Lit3(72), amount)), FZero, FZero,
      FSub(Lit3(213), FMul(Lit3(213), amount)),
      FAdd(Lit3(715), FMul(Lit3(285), amount)),
      FSub(Lit3(72), FMul(Lit3(72), amount)), FZero, FZero,
      FSub(Lit3(213), FMul(Lit3(213), amount)),
      FSub(Lit3(715), FMul(Lit3(715), amount)),
      FAdd(Lit3(72), FMul(Lit3(928), amount)), FZero, FZero,
      FZero, FZero, FZero, FOne, FZero>>

SepiaMatrix(amount) ==
    LET inv_amount == FSub(FOne, amount)
    IN  <<FAdd(Lit3(393), FMul(Lit3(607), inv_amount)),
          FSub(Lit3(769), FMul(Lit3(769), inv_amount)),
          FSub(Lit3(189), FMul(Lit3(189), inv_amount)), FZero, FZero,
          FSub(Lit3(349), FMul(Lit3(349), inv_amount)),
          FAdd(Lit3(686), FMul(Lit3(314), inv_amount)),
          FSub(Lit3(168), FMul(Lit3(168), inv_amount)), FZero, FZero,
          FSub(Lit3(272), FMul(Lit3(272), inv_amount)),
          FSub(Lit3(534), FMul(Lit3(534), inv_amount)),
          FAdd(Lit3(131), FMul(Lit3(869), inv_amount)), FZero, FZero,
          FZero, FZero, FZero, FOne, FZero>>

\* 3.14159265358979323846f / 180.0f.
DegToRad == [neg |-> FALSE, m |-> 9370165, e |-> -29]

plutofilter__deg2rad(angle) == FMul(angle, DegToRad)

\* (float)cos(x) and (float)sin(x) of the C library, for the radians of 0, 90
\* and 180 degrees.
CosF(x) ==
    CASE x = FZero -> FOne
      [] x = plutofilter__deg2rad(FromInt(90)) ->
             [neg |-> TRUE, m |-> 12303662, e |-> -48]
      [] x = plutofilter__deg2rad(FromInt(180)) -> FromInt(-1)

SinF(x) ==
    CASE x = FZero -> FZero
      [] x = plutofilter__deg2rad(FromInt(90)) -> FOne
      [] x = plutofilter__deg2rad(FromInt(180)) ->
             [neg |-> TRUE, m |-> 12303662, e |-> -47]

HueRotateMatrix(angle) ==
    LET a1 == CosF(plutofilter__deg2rad(angle))
        a2 == SinF(plutofilter__deg2rad(angle))
    IN  <<FSub(FAdd(Lit3(213), FMul(a1, Lit3(787))), FMul(a2, Lit3(213))),
          FSub(FSub(Lit3(715), FMul(a1, Lit3(715))), FMul(a2, Lit3(715))),
          FAdd(FSub(Lit3(72), FMul(a1, Lit3(72))), FMul(a2, Lit3(928))),
          FZero, FZero,
          FAdd(FSub(Lit3(213), FMul(a1, Lit3(213))), FMul(a2, Lit3(143))),
          FAdd(FAdd(Lit3(715), FMul(a1, Lit3(285))), FMul(a2, Lit3(140))),
          FSub(FSub(Lit3(72), FMul(a1, Lit3(72))), FMul(a2, Lit3(283))),
          FZero, FZero,
          FSub(FSub(Lit3(213), FMul(a1, Lit3(213))), FMul(a2, Lit3(787))),
          FAdd(FSub(Lit3(715), FMul(a1, Lit3(715))), FMul(a2, Lit3(715))),
          FAdd(FAdd(Lit3(72), FMul(a1, Lit3(928))), FMul(a2, Lit3(72))),
          FZero, FZero,
          FZero, FZero, FZero, FOne, FZero>>

Presets ==
    {"opacity", "brightness", "invert", "contrast", "saturate", "grayscale",
     "sepia", "hue_rotate"}

PresetMatrix(preset, amount) ==
    CASE preset = "opacity" -> OpacityMatrix(amount)
      [] preset = "brightness" -> BrightnessMatrix(amount)
      [] preset = "invert" -> InvertMatrix(amount)
      [] preset = "contrast" -> ContrastMatrix(amount)
      [] preset = "saturate" -> SaturateMatrix(amount)
      [] preset = "grayscale" -> GrayscaleMatrix(amount)
      [] preset = "sepia" -> SepiaMatrix(amount)
      [] preset = "hue_rotate" -> HueRotateMatrix(amount)

\* The body of the loop of plutofilter_color_transform_luminance_to_alpha.
LuminanceToAlphaPixel(pixel) ==
    LET u == PLUTOFILTER_UNPREMULTIPLY_PIXEL(PLUTOFILTER_UNPACK_PIXEL(pixel))
        l == FAdd(FAdd(FMul(FromInt(u.r), Lit4(2125)),
                       FMul(FromInt(u.g), Lit4(7154))),
                  FMul(FromInt(u.b), Lit4(721)))
    IN  PLUTOFILTER_PACK_PIXEL(0, 0, 0, ClampFloatPixel(l))

PLUTOFILTER_SRGB_TO_LINEAR_RGB_TABLE ==
    <<0, 0, 0, 0, 0, 0, 0, 1, 1, 1, 1, 1, 1, 1, 1, 1,
      1, 1, 2, 2, 2, 2, 2, 2, 2, 2, 3, 3, 3, 3, 3, 3,
      4, 4, 4, 4, 4, 5, 5, 5, 5, 6, 6, 6, 6, 7, 7, 7,
      8, 8, 8, 8, 9, 9, 9, 10, 10, 10, 11, 11, 12, 12, 12, 13,
      13, 13, 14, 14, 15, 15, 16, 16, 17, 17, 17, 18, 18, 19, 19, 20,
      20, 21, 22, 22, 23, 23, 24, 24, 25, 25, 26, 27, 27, 28, 29, 29,
      30, 30, 31, 32, 32, 33, 34, 35, 35, 36, 37, 37, 38, 39, 40, 41,
      41, 42, 43, 44, 45, 45, 46, 47, 48, 49, 50, 51, 51, 52, 53, 54,
      55, 56, 57, 58, 59, 60, 61, 62, 63, 64, 65, 66, 67, 68, 69, 70,
      71, 72, 73, 74, 76, 77, 78, 79, 80, 81, 82, 84, 85, 86, 87, 88,
      90, 91, 92, 93, 95, 96, 97, 99, 100, 101, 103, 104, 105, 107, 108, 109,
      111, 112, 114, 115, 116, 118, 119, 121, 122, 124, 125, 127, 128, 130, 131, 133,
      134, 136, 138, 139, 141, 142, 144, 146, 147, 149, 151, 152, 154, 156, 157, 159,
      161, 163, 164, 166, 168, 170, 171, 173, 175, 177, 179, 181, 183, 184, 186, 188,
      190, 192, 194, 196, 198, 200, 202, 204, 206, 208, 210, 212, 214, 216, 218, 220,
      222, 224, 226, 229, 231, 233, 235, 237, 239, 242, 244, 246, 248, 250, 253, 255>>

PLUTOFILTER_LINEAR_RGB_TO_SRGB_TABLE ==
    <<0, 13, 22, 28, 34, 38, 42, 46, 50, 53, 56, 59, 61, 64, 66, 69,
      71, 73, 75, 77, 79, 81, 83, 85, 86, 88, 90, 92, 93, 95, 96, 98,
      99, 101, 102, 104, 105, 106, 108, 109, 110, 112, 113, 114, 115, 117, 118, 119,
      120, 121, 122, 124, 125, 126, 127, 128, 129, 130, 131, 132, 133, 134, 135, 136,
      137, 138, 139, 140, 141, 142, 143, 144, 145, 146, 147, 148, 148, 149, 150, 151,
      152, 153, 154, 155, 155, 156, 157, 158, 159, 159, 160, 161, 162, 163, 163, 164,
      165, 166, 167, 167, 168, 169, 170, 170, 171, 172, 173, 173, 174, 175, 175, 176,
      177, 178, 178, 179, 180, 180, 181, 182, 182, 183, 184, 185, 185, 186, 187, 187,
      188, 189, 189, 190, 190, 191, 192, 192, 193, 194, 194, 195, 196, 196, 197, 197,
      198, 199, 199, 200, 200, 201, 202, 202, 203, 203, 204, 205, 205, 206, 206, 207,
      208, 208, 209, 209, 210, 210, 211, 212, 212, 213, 213, 214, 214, 215, 215, 216,
      216, 217, 218, 218, 219, 219, 220, 220, 221, 221, 222, 222, 223, 223, 224, 224,
      225, 226, 226, 227, 227, 228, 228, 229, 229, 230, 230, 231, 231, 232, 232, 233,
      233, 234, 234, 235, 235, 236, 236, 237, 237, 238, 238, 238, 239, 239, 240, 240,
      241, 241, 242, 242, 243, 243, 244, 244, 245, 245, 246, 246, 246, 247, 247, 248,
      248, 249, 249, 250, 250, 251, 251, 251, 252, 252, 253, 253, 254, 254, 255, 255>>

\* table[i]; the tables have 256 entries, and a read past the end returns
\* whatever byte lies there, oob.
TableEntry(table, i, oob) == IF i < 256 THEN table[i + 1] ELSE oob

\* The body of the loops of the two conversions between sRGB and linear RGB.
GammaPixel(table, pixel, oob) ==
    LET u == PLUTOFILTER_UNPREMULTIPLY_PIXEL(PLUTOFILTER_UNPACK_PIXEL(pixel))
        t == [u EXCEPT !.r = TableEntry(table, u.r, oob),
                       !.g = TableEntry(table, u.g, oob),
                       !.b = TableEntry(table, u.b, oob)]
    IN  PackRGBA(PLUTOFILTER_PREMULTIPLY_PIXEL(t))

(***************************************************************************)
(* Blend modes: op(s, d, sa, da) on premultiplied channels, in int.        *)
(***************************************************************************)
\* A faulty variant: the backdrop over the source.
BlendNormalBackdropOver(s, d, sa, da) ==
    d + plutofilter__div255(s * (255 - da))

plutofilter__blend_normal_op(s, d, sa, da) ==
    s + plutofilter__div255(d * (255 - sa))

\* A faulty variant: the term of the backdrop outside the source is missing.
BlendMultiplyNoBackdropTerm(s, d, sa, da) ==
    plutofilter__div255(s * d + s * (255 - da))

plutofilter__blend_multiply_op(s, d, sa, da) ==
    plutofilter__div255(s * d + s * (255 - da) + d * (255 - sa))

plutofilter__blend_screen_op(s, d, sa, da) ==
    s + d - plutofilter__div255(s * d)

plutofilter__blend_overlay_op(s, d, sa, da) ==
    LET tmp == s * (255 - da) + d * (255 - sa)
    IN  IF 2 * d <= da
        THEN plutofilter__div255(2 * s * d + tmp)
        ELSE plutofilter__div255(sa * da - 2 * (da - d) * (sa - s) + tmp)

plutofilter__blend_darken_op(s, d, sa, da) ==
    LET sda == s * da
        dsa == d * sa
    IN  IF sda < dsa
        THEN s + d - plutofilter__div255(dsa)
        ELSE d + s - plutofilter__div255(sda)

plutofilter__blend_lighten_op(s, d, sa, da) ==
    LET sda == s * da
        dsa == d * sa
    IN  IF sda > dsa
        THEN s + d - plutofilter__div255(dsa)
        ELSE d + s - plutofilter__div255(sda)

plutofilter__blend_color_dodge_op(s, d, sa, da) ==
    IF d = 0 THEN plutofilter__div255(s * (255 - da))
    ELSE IF s = sa
    THEN plutofilter__div255(sa * da + s * (255 - da) + d * (255 - sa))
    ELSE IF da * (sa - s) < d * sa
    THEN plutofilter__div255(sa * da + s * (255 - da) + d * (255 - sa))
    ELSE plutofilter__div255(sa * CDiv(d * sa, sa - s)
                             + s * (255 - da) + d * (255 - sa))

plutofilter__blend_color_burn_op(s, d, sa, da) ==
    IF d = da
    THEN plutofilter__div255(sa * da + s * (255 - da) + d * (255 - sa))
    ELSE IF s = 0 THEN plutofilter__div255(d * (255 - sa))
    ELSE IF da * s < (da - d) * sa
    THEN plutofilter__div255(s * (255 - da) + d * (255 - sa))
    ELSE plutofilter__div255(sa * (da - CDiv((da - d) * sa, s))
                             + s * (255 - da) + d * (255 - sa))

\* A faulty variant: the branch is chosen by the backdrop, as in overlay.
BlendHardLightAsOverlay(s, d, sa, da) ==
    LET tmp == s * (255 - da) + d * (255 - sa)
    IN  IF 2 * d <= da
        THEN plutofilter__div255(2 * s * d + tmp)
        ELSE plutofilter__div255(sa * da - 2 * (da - d) * (sa - s) + tmp)

plutofilter__blend_hard_light_op(s, d, sa, da) ==
    LET tmp == s * (255 - da) + d * (255 - sa)
    IN  IF 2 * s <= sa
        THEN plutofilter__div255(2 * s * d + tmp)
        ELSE plutofilter__div255(sa * da - 2 * (da - d) * (sa - s) + tmp)

\* (int)sqrtf(n) of a non-negative int n: the integer square root (sqrtf is
\* correctly rounded, and exact on the squares).
RECURSIVE ISqrtBetween(_, _, _)
ISqrtBetween(n, lo, hi) ==
    IF lo >= hi THEN lo
    ELSE LET mid == (lo + hi + 1) \div 2
         IN  IF mid * mid <= n THEN ISqrtBetween(n, mid, hi)
             ELSE ISqrtBetween(n, lo, mid - 1)

ISqrt(n) == ISqrtBetween(n, 0, 4096)

plutofilter__blend_soft_light_op(s, d, sa, da) ==
    LET s2 == s * 2
        d_np == IF da # 0 THEN CDiv(255 * d, da) ELSE 0
        temp == (s * (255 - da) + d * (255 - sa)) * 255
    IN  IF s2 < sa
        THEN CDiv(d * (sa * 255 + (s2 - sa) * (255 - d_np)) + temp, 65025)
        ELSE IF 4 * d <= da
        THEN CDiv(d * sa * 255
                  + da * (s2 - sa)
                       * CDiv(((16 * d_np - 12 * 255) * d_np + 3 * 65025) * d_np,
                              65025)
                  + temp, 65025)
        ELSE CDiv((d * sa * 255 + da * (s2 - sa) * ISqrt(d_np * 255) - d_np)
                  + temp, 65025)

plutofilter__blend_difference_op(s, d, sa, da) ==
    LET sda == s * da
        dsa == d * sa
    IN  IF sda < dsa
        THEN d + s - 2 * plutofilter__div255(sda)
        ELSE s + d - 2 * plutofilter__div255(dsa)

plutofilter__blend_exclusion_op(s, d, sa, da) ==
    plutofilter__div255(255 * (s + d) - 2 * s * d)

BlendModes ==
    {"normal", "multiply", "screen", "overlay", "darken", "lighten",
     "color_dodge", "color_burn", "hard_light", "soft_light", "difference",
     "exclusion"}

\* plutofilter__blend_<mode>_op.
BlendOp(mode, s, d, sa, da) ==
    CASE mode = "normal" -> plutofilter__blend_normal_op(s, d, sa, da)
      [] mode = "multiply" -> plutofilter__blend_multiply_op(s, d, sa, da)
      [] mode = "screen" -> plutofilter__blend_screen_op(s, d, sa, da)
      [] mode = "overlay" -> plutofilter__blend_overlay_op(s, d, sa, da)
      [] mode = "darken" -> plutofilter__blend_darken_op(s, d, sa, da)
      [] mode = "lighten" -> plutofilter__blend_lighten_op(s, d, sa, da)
      [] mode = "color_dodge" -> plutofilter__blend_color_dodge_op(s, d, sa, da)
      [] mode = "color_burn" -> plutofilter__blend_color_burn_op(s, d, sa, da)
      [] mode = "hard_light" -> plutofilter__blend_hard_light_op(s, d, sa, da)
      [] mode = "soft_light" -> plutofilter__blend_soft_light_op(s, d, sa, da)
      [] mode = "difference" -> plutofilter__blend_difference_op(s, d, sa, da)
      [] mode = "exclusion" -> plutofilter__blend_exclusion_op(s, d, sa, da)

\* The divisors, other than constants, of the divisions that
\* plutofilter__blend_<mode>_op reaches for (s, d, sa, da); this variant is
\* faulty: color-dodge does not return early for s = sa.
BlendDivisorsNoGuard(mode, s, d, sa, da) ==
    CASE mode = "color_dodge" ->
             IF d = 0 THEN {}
             ELSE IF da * (sa - s) < d * sa THEN {}
             ELSE {sa - s}
      [] mode = "color_burn" ->
             IF d = da THEN {}
             ELSE IF s = 0 THEN {}
             ELSE IF da * s < (da - d) * sa THEN {}
             ELSE {s}
      [] mode = "soft_light" -> IF da # 0 THEN {da} ELSE {}
      [] OTHER -> {}

\* The divisors, other than constants, of the divisions that
\* plutofilter__blend_<mode>_op reaches for (s, d, sa, da), by the returns
\* that precede each division.
BlendDivisors(mode, s, d, sa, da) ==
    CASE mode = "color_dodge" ->
             IF d = 0 THEN {}
             ELSE IF s = sa THEN {}
             ELSE IF da * (sa - s) < d * sa THEN {}
             ELSE {sa - s}
      [] mode = "color_burn" ->
             IF d = da THEN {}
             ELSE IF s = 0 THEN {}
             ELSE IF da * s < (da - d) * sa THEN {}
             ELSE {s}
      [] mode = "soft_light" -> IF da # 0 THEN {da} ELSE {}
      [] OTHER -> {}

PLUTOFILTER_CLAMP_AND_STORE_PIXEL(r, g, b, a) ==
    PLUTOFILTER_PACK_PIXEL(PLUTOFILTER_CLAMP_PIXEL(r), PLUTOFILTER_CLAMP_PIXEL(g),
                           PLUTOFILTER_CLAMP_PIXEL(b), PLUTOFILTER_CLAMP_PIXEL(a))

\* A faulty variant: the alpha of the source over the backdrop.
BlendPixelAlphaOver(mode, src, dst) ==
    LET s == PLUTOFILTER_UNPACK_PIXEL(src)
        d == PLUTOFILTER_UNPACK_PIXEL(dst)
    IN  PLUTOFILTER_CLAMP_AND_STORE_PIXEL(
            BlendOp(mode, s.r, d.r, s.a, d.a),
            BlendOp(mode, s.g, d.g, s.a, d.a),
            BlendOp(mode, s.b, d.b, s.a, d.a),
            s.a + plutofilter__div255(d.a * (255 - s.a)))

\* The body of the loop of plutofilter__blend_<mode> for one pair of words.
BlendPixel(mode, src, dst) ==
    LET s == PLUTOFILTER_UNPACK_PIXEL(src)
        d == PLUTOFILTER_UNPACK_PIXEL(dst)
    IN  PLUTOFILTER_CLAMP_AND_STORE_PIXEL(
            BlendOp(mode, s.r, d.r, s.a, d.a),
            BlendOp(mode, s.g, d.g, s.a, d.a),
            BlendOp(mode, s.b, d.b, s.a, d.a),
            s.a + d.a - plutofilter__div255(s.a * d.a))

(***************************************************************************)
(* Porter-Duff operators, in uint32_t; the result is stored unclamped.     *)
(***************************************************************************)
plutofilter__composite_over(src, dst) ==
    LET s == PLUTOFILTER_UNPACK_PIXEL(src)
        d == PLUTOFILTER_UNPACK_PIXEL(dst)
        inv_sa == 255 - s.a
    IN  PLUTOFILTER_PACK_PIXEL(s.r + plutofilter__div255(d.r * inv_sa),
                               s.g + plutofilter__div255(d.g * inv_sa),
                               s.b + plutofilter__div255(d.b * inv_sa),
                               s.a + plutofilter__div255(d.a * inv_sa))

\* A faulty variant: the source is weighted by 255 - da.
CompositeInWrongFactor(src, dst) ==
    LET s == PLUTOFILTER_UNPACK_PIXEL(src)
        inv_da == 255 - PLUTOFILTER_ALPHA(dst)
    IN  PLUTOFILTER_PACK_PIXEL(plutofilter__div255(s.r * inv_da),
                               plutofilter__div255(s.g * inv_da),
                               plutofilter__div255(s.b * inv_da),
                               plutofilter__div255(s.a * inv_da))

plutofilter__composite_in(src, dst) ==
    LET s == PLUTOFILTER_UNPACK_PIXEL(src)
        da == PLUTOFILTER_ALPHA(dst)
    IN  PLUTOFILTER_PACK_PIXEL(plutofilter__div255(s.r * da),
                               plutofilter__div255(s.g * da),
                               plutofilter__div255(s.b * da),
                               plutofilter__div255(s.a * da))

plutofilter__composite_out(src, dst) ==
    LET s == PLUTOFILTER_UNPACK_PIXEL(src)
        inv_da == 255 - PLUTOFILTER_ALPHA(dst)
    IN  PLUTOFILTER_PACK_PIXEL(plutofilter__div255(s.r * inv_da),
                               plutofilter__div255(s.g * inv_da),
                               plutofilter__div255(s.b * inv_da),
                               plutofilter__div255(s.a * inv_da))

plutofilter__composite_atop(src, dst) ==
    LET s == PLUTOFILTER_UNPACK_PIXEL(src)
        d == PLUTOFILTER_UNPACK_PIXEL(dst)
        inv_sa == 255 - s.a
    IN  PLUTOFILTER_PACK_PIXEL(
            plutofilter__div255(s.r * d.a) + plutofilter__div255(d.r * inv_sa),
            plutofilter__div255(s.g * d.a) + plutofilter__div255(d.g * inv_sa),
            plutofilter__div255(s.b * d.a) + plutofilter__div255(d.b * inv_sa),
            d.a)

plutofilter__composite_xor(src, dst) ==
    LET s == PLUTOFILTER_UNPACK_PIXEL(src)
        d == PLUTOFILTER_UNPACK_PIXEL(dst)
        inv_sa == 255 - s.a
        inv_da == 255 - d.a
    IN  PLUTOFILTER_PACK_PIXEL(
            plutofilter__div255(s.r * inv_da) + plutofilter__div255(d.r * inv_sa),
            plutofilter__div255(s.g * inv_da) + plutofilter__div255(d.g * inv_sa),
            plutofilter__div255(s.b * inv_da) + plutofilter__div255(d.b * inv_sa),
            plutofilter__div255(s.a * inv_da) + plutofilter__div255(d.a * inv_sa))

\* The values of the four channel expressions of plutofilter__composite_
\* <operator>, before they are packed.
CompositeChannels(operator, src, dst) ==
    LET s == PLUTOFILTER_UNPACK_PIXEL(src)
        d == PLUTOFILTER_UNPACK_PIXEL(dst)
        inv_sa == 255 - s.a
        inv_da == 255 - d.a
        Over(sc, dc) == sc + plutofilter__div255(dc * inv_sa)
        In(sc, dc) == plutofilter__div255(sc * d.a)
        Out(sc, dc) == plutofilter__div255(sc * inv_da)
        Atop(sc, dc) == plutofilter__div255(sc * d.a)
                        + plutofilter__div255(dc * inv_sa)
        Xor(sc, dc) == plutofilter__div255(sc * inv_da)
                       + plutofilter__div255(dc * inv_sa)
        Ch(sc, dc) == CASE operator = "over" -> Over(sc, dc)
                        [] operator = "in" -> In(sc, dc)
                        [] operator = "out" -> Out(sc, dc)
                        [] operator = "atop" -> Atop(sc, dc)
                        [] operator = "xor" -> Xor(sc, dc)
    IN  [r |-> Ch(s.r, d.r), g |-> Ch(s.g, d.g), b |-> Ch(s.b, d.b),
         a |-> IF operator = "atop" THEN d.a ELSE Ch(s.a, d.a)]

CompositeOperators == {"over", "in", "out", "atop", "xor"}

CompositePixel(operator, src, dst) ==
    CASE operator = "over" -> plutofilter__composite_over(src, dst)
      [] operator = "in" -> plutofilter__composite_in(src, dst)
      [] operator = "out" -> plutofilter__composite_out(src, dst)
      [] operator = "atop" -> plutofilter__composite_atop(src, dst)
      [] operator = "xor" -> plutofilter__composite_xor(src, dst)

\* A faulty variant: the product is not divided by 255.
ArithmeticChannelNoDivision(k, s, d) ==
    FAdd(FAdd(FAdd(FMul(k[1], FromInt(s * d)), FMul(k[2], FromInt(s))),
              FMul(k[3], FromInt(d))),
         FMul(k[4], FromInt(255)))

\* fd = k1 * ((s * d) / 255.f) + k2 * s + k3 * d + k4 * 255.f, in float.
ArithmeticChannel(k, s, d) ==
    FAdd(FAdd(FAdd(FMul(k[1], FDivInt(s * d, 255)), FMul(k[2], FromInt(s))),
              FMul(k[3], FromInt(d))),
         FMul(k[4], FromInt(255)))

\* The body of the loop of plutofilter_composite_arithmetic; k is
\* <<k1, k2, k3, k4>>.
ArithmeticPixel(k, src, dst) ==
    LET s == PLUTOFILTER_UNPACK_PIXEL(src)
        d == PLUTOFILTER_UNPACK_PIXEL(dst)
    IN  PLUTOFILTER_PACK_PIXEL(ClampFloatPixel(ArithmeticChannel(k, s.r, d.r)),
                               ClampFloatPixel(ArithmeticChannel(k, s.g, d.g)),
                               ClampFloatPixel(ArithmeticChannel(k, s.b, d.b)),
                               ClampFloatPixel(ArithmeticChannel(k, s.a, d.a)))

(***************************************************************************)
(* Box blur.  The state of a pass is st = [mem, ring, i, line, sum_r,      *)
(* sum_g, sum_b, sum_a]: the memory as stored so far, the ring buffer      *)
(* intermediate[], the two loop counters and the four running sums.  In    *)
(* the horizontal pass i is x and line is y; in the vertical pass i is y   *)
(* and line is x.                                                          *)
(***************************************************************************)
PLUTOFILTER_MAX_KERNEL_SIZE == 512

LineX(horiz, st) == IF horiz THEN st.i ELSE st.line
LineY(horiz, st) == IF horiz THEN st.line ELSE st.i

\* A store that divides the sums by one more than the kernel size.
BlurStoreWrongDivisor(st, k) ==
    PLUTOFILTER_PACK_PIXEL(st.sum_r \div (k + 1), st.sum_g \div (k + 1),
                           st.sum_b \div (k + 1), st.sum_a \div (k + 1))

\* A faulty variant: the quotients are rounded up.
BlurStoreRoundsUp(st, k) ==
    PLUTOFILTER_PACK_PIXEL((st.sum_r + k - 1) \div k, (st.sum_g + k - 1) \div k,
                           (st.sum_b + k - 1) \div k, (st.sum_a + k - 1) \div k)

\* The word PLUTOFILTER_BLUR_STORE_PIXEL stores: each sum over the kernel size.
PLUTOFILTER_BLUR_STORE_PIXEL(st, k) ==
    PLUTOFILTER_PACK_PIXEL(st.sum_r \div k, st.sum_g \div k,
                           st.sum_b \div k, st.sum_a \div k)

AddPixel(st, pixel) ==
    [st EXCEPT !.sum_r = @ + PLUTOFILTER_RED(pixel),
               !.sum_g = @ + PLUTOFILTER_GREEN(pixel),
               !.sum_b = @ + PLUTOFILTER_BLUE(pixel),
               !.sum_a = @ + PLUTOFILTER_ALPHA(pixel)]

SubPixel(st, pixel) ==
    [st EXCEPT !.sum_r = @ - PLUTOFILTER_RED(pixel),
               !.sum_g = @ - PLUTOFILTER_GREEN(pixel),
               !.sum_b = @ - PLUTOFILTER_BLUE(pixel),
               !.sum_a = @ - PLUTOFILTER_ALPHA(pixel)]

\* The store at position offset of the current line.
BlurStore(st, out, horiz, offset, k) ==
    LET x == IF horiz THEN offset ELSE st.line
        y == IF horiz THEN st.line ELSE offset
    IN  [st EXCEPT !.mem[PixelAddr(out, x, y)] =
                       PLUTOFILTER_BLUR_STORE_PIXEL(st, k)]

\* A faulty variant: what the ring slot held is added before the slot is
\* overwritten.
BlurFillAddsSlot(st, in, out, horiz, n, k) ==
    LET pixel == PLUTOFILTER_GET_PIXEL(st.mem, in, LineX(horiz, st),
                                       LineY(horiz, st))
        s0 == AddPixel(st, st.ring[st.i % k])
        s1 == AddPixel([s0 EXCEPT !.ring[st.i % k] = pixel], pixel)
        offset == st.i - (k \div 2)
    IN  IF offset >= 0 /\ offset < n
        THEN BlurStore(s1, out, horiz, offset, k) ELSE s1

\* One iteration of the first loop (i < k): the entering pixel is put in the
\* ring and added.
BlurFill(st, in, out, horiz, n, k) ==
    LET pixel == PLUTOFILTER_GET_PIXEL(st.mem, in, LineX(horiz, st),
                                       LineY(horiz, st))
        s1 == AddPixel([st EXCEPT !.ring[st.i % k] = pixel], pixel)
        offset == st.i - (k \div 2)
    IN  IF offset >= 0 /\ offset < n
        THEN BlurStore(s1, out, horiz, offset, k) ELSE s1

\* One iteration of the second loop (k <= i < n): the pixel in the ring slot
\* is subtracted, the entering pixel replaces it and is added.
BlurSlide(st, in, out, horiz, n, k) ==
    LET s1 == SubPixel(st, st.ring[st.i % k])
        pixel == PLUTOFILTER_GET_PIXEL(s1.mem, in, LineX(horiz, st),
                                       LineY(horiz, st))
        s2 == AddPixel([s1 EXCEPT !.ring[st.i % k] = pixel], pixel)
    IN  BlurStore(s2, out, horiz, st.i - (k \div 2), k)

\* A faulty variant: the pixel in the ring slot is not subtracted.
BlurDrainNoSubtract(st, in, out, horiz, n, k) ==
    LET offset == st.i - (k \div 2)
    IN  IF offset >= 0 /\ offset < n
        THEN BlurStore(st, out, horiz, offset, k) ELSE st

\* One iteration of the third loop (n <= i < n + k): the pixel in the ring
\* slot is subtracted.
BlurDrain(st, in, out, horiz, n, k) ==
    LET s1 == SubPixel(st, st.ring[st.i % k])
        offset == st.i - (k \div 2)
    IN  IF offset >= 0 /\ offset < n
        THEN BlurStore(s1, out, horiz, offset, k) ELSE s1

\* The iteration at st.i, whichever loop it belongs to, and the increment.
BlurStep(st, in, out, horiz, n, k) ==
    LET s1 == IF st.i < k THEN BlurFill(st, in, out, horiz, n, k)
              ELSE IF st.i < n THEN BlurSlide(st, in, out, horiz, n, k)
              ELSE BlurDrain(st, in, out, horiz, n, k)
    IN  [s1 EXCEPT !.i = @ + 1]

\* The three loops of one line, from iteration st.i on (k <= n).
RECURSIVE BlurLine(_, _, _, _, _, _)
BlurLine(st, in, out, horiz, n, k) ==
    IF st.i >= n + k THEN st
    ELSE BlurLine(BlurStep(st, in, out, horiz, n, k), in, out, horiz, n, k)

\* The lines from st.line on; the sums start at 0 on every line.
RECURSIVE BlurLines(_, _, _, _, _, _, _)
BlurLines(st, in, out, horiz, lines, n, k) ==
    IF st.line >= lines THEN st
    ELSE BlurLines(
             [BlurLine([st EXCEPT !.i = 0, !.sum_r = 0, !.sum_g = 0,
                                  !.sum_b = 0, !.sum_a = 0],
                       in, out, horiz, n, k)
                 EXCEPT !.line = @ + 1],
             in, out, horiz, lines, n, k)

\* A faulty variant: the kernel is not cut to the length of the line.
PassKernelNoClamp(kernel, n) == kernel

\* kernel_width = PLUTOFILTER_MIN(kernel_width, out.width), and the same for
\* the height.
PassKernel(kernel, n) == Min(kernel, n)

\* Both passes read `in` and store to `out`.
plutofilter__box_blur(st, in, out, kernel_width, kernel_height) ==
    LET h == IF kernel_width > 0
             THEN BlurLines([st EXCEPT !.line = 0], in, out, TRUE, out.height,
                            out.width, PassKernel(kernel_width, out.width))
             ELSE st
    IN  IF kernel_height > 0
        THEN BlurLines([h EXCEPT !.line = 0], in, out, FALSE, out.width,
                       out.height, PassKernel(kernel_height, out.height))
        ELSE h

\* floorf(std_deviation * PLUTOFILTER_KERNEL_FACTOR + 0.5f); a standard
\* deviation is a number of tenths, the factor 1.8799712 is taken as 1.87997.
plutofilter__calc_kernel_size(std_deviation) ==
    (std_deviation * 187997 + 5 * 10 ^ 5) \div 10 ^ 6

\* A faulty variant: the copy runs from out to in.
RECURSIVE CopyWordsSwapped(_, _, _, _, _)
CopyWordsSwapped(m, in, out, k, size) ==
    IF k >= size THEN m
    ELSE CopyWordsSwapped([m EXCEPT ![in.pixels + k] = m[out.pixels + k]],
                          in, out, k + 1, size)

\* out.pixels[i] = in.pixels[i] for i from k to size - 1.
RECURSIVE CopyWords(_, _, _, _, _)
CopyWords(m, in, out, k, size) ==
    IF k >= size THEN m
    ELSE CopyWords([m EXCEPT ![out.pixels + k] = m[in.pixels + k]],
                   in, out, k + 1, size)

\* ring0 is what the uninitialised intermediate[] holds at entry.
plutofilter_gaussian_blur(m, in0, out0, std_deviation_x, std_deviation_y, ring0) ==
    LET ov == PLUTOFILTER_OVERLAP_SURFACE(in0, out0)
        in == ov[1]
        out == ov[2]
        kernel_width == plutofilter__calc_kernel_size(std_deviation_x)
        kernel_height == plutofilter__calc_kernel_size(std_deviation_y)
    IN  IF kernel_width <= 0 /\ kernel_height <= 0
        THEN CopyWords(m, in, out, 0, out.width * out.height)
        ELSE LET kw == IF kernel_width > PLUTOFILTER_MAX_KERNEL_SIZE
                       THEN PLUTOFILTER_MAX_KERNEL_SIZE ELSE kernel_width
                 kh == IF kernel_height > PLUTOFILTER_MAX_KERNEL_SIZE
                       THEN PLUTOFILTER_MAX_KERNEL_SIZE ELSE kernel_height
                 st0 == [mem |-> m, ring |-> ring0, i |-> 0, line |-> 0,
                         sum_r |-> 0, sum_g |-> 0, sum_b |-> 0, sum_a |-> 0]
                 p1 == plutofilter__box_blur(st0, in, out, kw, kh)
                 p2 == plutofilter__box_blur(p1, out, out, kw, kh)
                 p3 == plutofilter__box_blur(p2, out, out, kw, kh)
             IN  p3.mem

(***************************************************************************)
(* The per-pixel entry points: for y, for x, load, compute, store, on the  *)
(* memory as the stores so far have left it.                               *)
(***************************************************************************)
\* What the call c stores for the input words p (of in, in1) and q (of in2).
PixelResult(c, p, q) ==
    CASE c.op = "color_transform" -> ColorTransformPixel(p, c.matrix)
      [] c.op = "blend" -> BlendPixel(c.mode, p, q)
      [] c.op = "composite" -> CompositePixel(c.operator, p, q)
      [] c.op = "luminance_to_alpha" -> LuminanceToAlphaPixel(p)
      [] c.op = "srgb_to_linear_rgb" ->
             GammaPixel(PLUTOFILTER_SRGB_TO_LINEAR_RGB_TABLE, p, c.oob)
      [] c.op = "linear_rgb_to_srgb" ->
             GammaPixel(PLUTOFILTER_LINEAR_RGB_TO_SRGB_TABLE, p, c.oob)
      [] c.op = "composite_arithmetic" -> ArithmeticPixel(c.k, p, q)

\* A faulty variant: the word of in2 is read one pixel to the left.
RECURSIVE PixelLoopReadsLeft(_, _, _, _, _, _)
PixelLoopReadsLeft(c, m, in1, in2, out, k) ==
    IF k >= out.width * out.height THEN m
    ELSE LET x == k % out.width
             y == k \div out.width
             w == PixelResult(c, PLUTOFILTER_GET_PIXEL(m, in1, x, y),
                              PLUTOFILTER_GET_PIXEL(m, in2, Max(x - 1, 0), y))
         IN  PixelLoopReadsLeft(c, [m EXCEPT ![PixelAddr(out, x, y)] = w],
                                in1, in2, out, k + 1)

\* Pixel k of the region in row-major order, and those after it.
RECURSIVE PixelLoop(_, _, _, _, _, _)
PixelLoop(c, m, in1, in2, out, k) ==
    IF k >= out.width * out.height THEN m
    ELSE LET x == k % out.width
             y == k \div out.width
             w == PixelResult(c, PLUTOFILTER_GET_PIXEL(m, in1, x, y),
                              PLUTOFILTER_GET_PIXEL(m, in2, x, y))
         IN  PixelLoop(c, [m EXCEPT ![PixelAddr(out, x, y)] = w],
                       in1, in2, out, k + 1)

plutofilter_color_transform(m, in, out, matrix) ==
    LET ov == PLUTOFILTER_OVERLAP_SURFACE(in, out)
    IN  PixelLoop([op |-> "color_transform", matrix |-> matrix],
                  m, ov[1], ov[1], ov[2], 0)

plutofilter_color_transform_grayscale(m, in, out, amount) ==
    plutofilter_color_transform(m, in, out, GrayscaleMatrix(amount))

plutofilter_blend(m, in1, in2, out, mode) ==
    LET ov == PLUTOFILTER_OVERLAP_SURFACE3(in1, in2, out)
    IN  PixelLoop([op |-> "blend", mode |-> mode], m, ov[1], ov[2], ov[3], 0)

plutofilter_composite(m, in1, in2, out, operator) ==
    LET ov == PLUTOFILTER_OVERLAP_SURFACE3(in1, in2, out)
    IN  PixelLoop([op |-> "composite", operator |-> operator],
                  m, ov[1], ov[2], ov[3], 0)

plutofilter_color_transform_luminance_to_alpha(m, in, out) ==
    LET ov == PLUTOFILTER_OVERLAP_SURFACE(in, out)
    IN  PixelLoop([op |-> "luminance_to_alpha"], m, ov[1], ov[1], ov[2], 0)

plutofilter_color_transform_srgb_to_linear_rgb(m, in, out, oob) ==
    LET ov == PLUTOFILTER_OVERLAP_SURFACE(in, out)
    IN  PixelLoop([op |-> "srgb_to_linear_rgb", oob |-> oob],
                  m, ov[1], ov[1], ov[2], 0)

plutofilter_color_transform_linear_rgb_to_srgb(m, in, out, oob) ==
    LET ov == PLUTOFILTER_OVERLAP_SURFACE(in, out)
    IN  PixelLoop([op |-> "linear_rgb_to_srgb", oob |-> oob],
                  m, ov[1], ov[1], ov[2], 0)

plutofilter_composite_arithmetic(m, in1, in2, out, k) ==
    LET ov == PLUTOFILTER_OVERLAP_SURFACE3(in1, in2, out)
    IN  PixelLoop([op |-> "composite_arithmetic", k |-> k],
                  m, ov[1], ov[2], ov[3], 0)

NoCall == [op |-> "none"]
NoMem == <<>>

(***************************************************************************)
(* The calls of the engine's entry points on the caller's memory.          *)
(***************************************************************************)
ColorTransformCall(in, out, matrix) ==
    /\ call.op = "none"
    /\ mem' = plutofilter_color_transform(mem, in, out, matrix)
    /\ pre' = mem
    /\ call' = [op |-> "color_transform", in |-> in, out |-> out,
                matrix |-> matrix]
    /\ UNCHANGED <<arg, ret>>

GrayscaleCall(in, out, amount) ==
    /\ call.op = "none"
    /\ mem' = plutofilter_color_transform_grayscale(mem, in, out, amount)
    /\ pre' = mem
    /\ call' = [op |-> "grayscale", in |-> in, out |-> out, amount |-> amount]
    /\ UNCHANGED <<arg, ret>>

\* A call of one of the presets other than grayscale.
PresetCall(preset, in, out, amount) ==
    /\ call.op = "none"
    /\ mem' = plutofilter_color_transform(mem, in, out,
                                          PresetMatrix(preset, amount))
    /\ pre' = mem
    /\ call' = [op |-> preset, in |-> in, out |-> out, amount |-> amount]
    /\ UNCHANGED <<arg, ret>>

LuminanceToAlphaCall(in, out) ==
    /\ call.op = "none"
    /\ mem' = plutofilter_color_transform_luminance_to_alpha(mem, in, out)
    /\ pre' = mem
    /\ call' = [op |-> "luminance_to_alpha", in |-> in, out |-> out]
    /\ UNCHANGED <<arg, ret>>

SrgbToLinearRgbCall(in, out, oob) ==
    /\ call.op = "none"
    /\ mem' = plutofilter_color_transform_srgb_to_linear_rgb(mem, in, out, oob)
    /\ pre' = mem
    /\ call' = [op |-> "srgb_to_linear_rgb", in |-> in, out |-> out,
                oob |-> oob]
    /\ UNCHANGED <<arg, ret>>

LinearRgbToSrgbCall(in, out, oob) ==
    /\ call.op = "none"
    /\ mem' = plutofilter_color_transform_linear_rgb_to_srgb(mem, in, out, oob)
    /\ pre' = mem
    /\ call' = [op |-> "linear_rgb_to_srgb", in |-> in, out |-> out,
                oob |-> oob]
    /\ UNCHANGED <<arg, ret>>

CompositeArithmeticCall(in1, in2, out, k) ==
    /\ call.op = "none"
    /\ mem' = plutofilter_composite_arithmetic(mem, in1, in2, out, k)
    /\ pre' = mem
    /\ call' = [op |-> "composite_arithmetic", in |-> in1, in2 |-> in2,
                out |-> out, k |-> k]
    /\ UNCHANGED <<arg, ret>>

BlendCall(in1, in2, out, mode) ==
    /\ call.op = "none"
    /\ mem' = plutofilter_blend(mem, in1, in2, out, mode)
    /\ pre' = mem
    /\ call' = [op |-> "blend", in |-> in1, in2 |-> in2, out |-> out,
                mode |-> mode]
    /\ UNCHANGED <<arg, ret>>

CompositeCall(in1, in2, out, operator) ==
    /\ call.op = "none"
    /\ mem' = plutofilter_composite(mem, in1, in2, out, operator)
    /\ pre' = mem
    /\ call' = [op |-> "composite", in |-> in1, in2 |-> in2, out |-> out,
                operator |-> operator]
    /\ UNCHANGED <<arg, ret>>

GaussianBlurCall(in, out, std_deviation_x, std_deviation_y, ring0) ==
    /\ call.op = "none"
    /\ mem' = plutofilter_gaussian_blur(mem, in, out, std_deviation_x,
                                        std_deviation_y, ring0)
    /\ pre' = mem
    /\ call' = [op |-> "gaussian_blur", in |-> in, out |-> out,
                std_deviation_x |-> std_deviation_x,
                std_deviation_y |-> std_deviation_y]
    /\ UNCHANGED <<arg, ret>>

(***************************************************************************)
(* SpecPixel: every per-pixel entry point on 1x1 surfaces.  The memory is  *)
(* three words: the pixel of in (in1), the pixel of in2, the pixel of out. *)
(***************************************************************************)
PxIn1 == plutofilter_surface_make(0, 1, 1, 1)
PxIn2 == plutofilter_surface_make(1, 1, 1, 1)
PxOut == plutofilter_surface_make(2, 1, 1, 1)

\* A premultiplied pixel word of alpha a: c in red, a - c in green, c / 2 in
\* blue.
PixelOf(c, a) == PLUTOFILTER_PACK_PIXEL(c, a - c, c \div 2, a)

AlphaSamples == {0, 1, 2, 16, 64, 127, 128, 191, 192, 254, 255}
ChannelSamples(a) == {c \in {0, 1, a \div 2, a - 1, a} : c >= 0 /\ c <= a}

\* The float arguments of the presets.
Amounts == {FZero, FHalf, FOne}

\* What a read past the end of a gamma table may return.
OobBytes == {0, 255}

\* The coefficients <<k1, k2, k3, k4>> of the arithmetic composite.
Coefficients ==
    {<<FZero, FOne, FZero, FZero>>, <<FOne, FZero, FZero, FZero>>,
     <<FHalf, FOne, FOne, FNeg(FHalf)>>}

\* The identity; the matrices of opacity 0.5, brightness 2, invert 1; red
\* and blue swapped with alpha from red.
Matrices ==
    {IdentityMatrix,
     [IdentityMatrix EXCEPT ![19] = FHalf],
     [IdentityMatrix EXCEPT ![1] = FromInt(2), ![7] = FromInt(2),
                            ![13] = FromInt(2)],
     [IdentityMatrix EXCEPT ![1] = FromInt(-1), ![7] = FromInt(-1),
                            ![13] = FromInt(-1), ![5] = FOne, ![10] = FOne,
                            ![15] = FOne],
     [IdentityMatrix EXCEPT ![1] = FZero, ![3] = FOne, ![11] = FOne,
                            ![13] = FZero, ![16] = FOne, ![19] = FZero]}

InitPixel ==
    /\ pre = NoMem
    /\ call = NoCall
    /\ arg = 0
    /\ ret = 0
    /\ \E sa \in 0..255, da \in AlphaSamples :
         \E s \in ChannelSamples(sa), d \in ChannelSamples(da) :
           /\ (sa \notin AlphaSamples => (da = 0 /\ d = 0))
           /\ mem = [i \in 0..2 |->
                        IF i = 0 THEN PixelOf(s, sa)
                        ELSE IF i = 1 THEN PixelOf(d, da) ELSE <<0, 0>>]

NextPixel ==
    \/ \E matrix \in Matrices : ColorTransformCall(PxIn1, PxOut, matrix)
    \/ \E amount \in Amounts : GrayscaleCall(PxIn1, PxOut, amount)
    \/ \E mode \in BlendModes : BlendCall(PxIn1, PxIn2, PxOut, mode)
    \/ \E operator \in CompositeOperators :
           CompositeCall(PxIn1, PxIn2, PxOut, operator)

SpecPixel == InitPixel /\ [][NextPixel]_vars

\* red, green, blue <= alpha.
Premultiplied(pixel) ==
    /\ PLUTOFILTER_RED(pixel) <= PLUTOFILTER_ALPHA(pixel)
    /\ PLUTOFILTER_GREEN(pixel) <= PLUTOFILTER_ALPHA(pixel)
    /\ PLUTOFILTER_BLUE(pixel) <= PLUTOFILTER_ALPHA(pixel)

\* The pixel (x, y) of a surface, in a memory.
At(m, surface, x, y) == m[PixelAddr(surface, x, y)]

\* C1: the colour transform with the identity matrix, and grayscale with
\* amount 0 (whose matrix is the identity), store for every premultiplied
\* input pixel an output word equal to the input word.
C1_IdentityIsBitIdentical ==
    /\ GrayscaleMatrix(FZero) = IdentityMatrix
    /\ ((call.op = "color_transform" /\ call.matrix = IdentityMatrix)
        \/ (call.op = "grayscale" /\ call.amount = FZero))
       => (Premultiplied(At(pre, call.in, 0, 0))
           => At(mem, call.out, 0, 0) = At(pre, call.in, 0, 0))

\* C2: composite with operator over and blend with mode normal store the
\* same output word for every pair of input words.
C2_OverEqualsNormal ==
    /\ (call.op = "composite" /\ call.operator = "over")
       => mem = plutofilter_blend(pre, call.in, call.in2, call.out, "normal")
    /\ (call.op = "blend" /\ call.mode = "normal")
       => mem = plutofilter_composite(pre, call.in, call.in2, call.out, "over")

\* C6: when every input pixel is premultiplied (red, green, blue <= alpha),
\* so is every pixel stored by the colour transform, by each blend mode and
\* by each composite operator.
C6_PremultipliedOnExit ==
    (call.op \in {"color_transform", "grayscale", "blend", "composite"}
     /\ Premultiplied(At(pre, PxIn1, 0, 0)) /\ Premultiplied(At(pre, PxIn2, 0, 0)))
    => Premultiplied(At(mem, PxOut, 0, 0))

(***************************************************************************)
(* SpecNum: the fixed-point primitives as pure functions.  Init draws the  *)
(* input; each action applies one primitive to it.                         *)
(***************************************************************************)
MaxProduct == 255 * 255

\* The alpha values of the pixels the primitives are applied to.
RoundTripAlphas == {0, 1, 64, 127, 128, 254, 255}

\* The straight pixel the caller holds: the channel value c in red, two other
\* values in green and blue.
StraightPixel(c, a) == [r |-> c, g |-> 255 - c, b |-> (7 * c) % 256, a |-> a]

InitNum ==
    /\ mem = NoMem
    /\ pre = NoMem
    /\ call = NoCall
    /\ ret = 0
    /\ \E n \in 0..MaxProduct, a \in RoundTripAlphas :
           /\ (n > 255 => a = 128)
           /\ arg = [x |-> n, a |-> a]

Div255 ==
    /\ call.op = "none"
    /\ call' = [op |-> "div255"]
    /\ ret' = plutofilter__div255(arg.x)
    /\ UNCHANGED <<mem, pre, arg>>

Premultiply ==
    /\ call.op = "none"
    /\ arg.x <= 255
    /\ call' = [op |-> "premultiply"]
    /\ ret' = PLUTOFILTER_PREMULTIPLY_PIXEL(StraightPixel(arg.x, arg.a))
    /\ UNCHANGED <<mem, pre, arg>>

\* Unpremultiply of the pixel the caller holds, or of the one premultiply
\* has just produced (the round trip).
Unpremultiply ==
    /\ \/ /\ call.op = "none"
          /\ arg.x <= 255
          /\ call' = [op |-> "unpremultiply"]
          /\ ret' = PLUTOFILTER_UNPREMULTIPLY_PIXEL(StraightPixel(arg.x, arg.a))
       \/ /\ call.op = "premultiply"
          /\ call' = [op |-> "roundtrip"]
          /\ ret' = PLUTOFILTER_UNPREMULTIPLY_PIXEL(ret)
    /\ UNCHANGED <<mem, pre, arg>>

NextNum == Div255 \/ Premultiply \/ Unpremultiply

SpecNum == InitNum /\ [][NextNum]_vars

\* x / 255 rounded to the nearest integer (255 is odd: there are no ties).
RoundDiv255(x) == (2 * x + 255) \div 510

\* C8: div255 is exact on the multiples of 255: div255(255 * k) = k for
\* every k in 0..255 (so div255(0) = 0, div255(128 * 255) = 128 and
\* div255(255 * 255) = 255).
C8_Div255ExactOnMultiples ==
    (call.op = "div255" /\ arg.x % 255 = 0) => ret = arg.x \div 255

C8_Witness ==
    call.op = "div255" /\ arg.x = 128 * 255 /\ ret = 128

\* C9 as claimed: div255(x) is x / 255 rounded to the nearest integer for
\* every x in 0..65025.
C9_Div255IsNearest ==
    call.op = "div255" => ret = RoundDiv255(arg.x)

\* C9 as amended: div255(x) is the nearest integer to x / 255 or the one
\* below it, never further than 128/255 from x / 255, and it is the nearest
\* integer for every x below 33023.
C9_Div255WithinHalfPlus ==
    call.op = "div255" =>
        /\ ret \in {RoundDiv255(arg.x), RoundDiv255(arg.x) - 1}
        /\ Abs(arg.x - 255 * ret) <= 128
        /\ (arg.x < 33023 => ret = RoundDiv255(arg.x))

C9_Witness ==
    call.op = "div255" /\ arg.x = 33023 /\ ret = 129 /\ RoundDiv255(arg.x) = 130

\* C10 as claimed: at alpha 128 the round trip premultiply, unpremultiply
\* returns a value within 1 of the straight channel value c, for every c in
\* 0..255; and unpremultiply at alpha 0 yields 0 in the three colour
\* channels.
C10_RoundTripWithinOne ==
    /\ (call.op = "roundtrip" /\ arg.a = 128) => Abs(ret.r - arg.x) <= 1
    /\ (call.op = "unpremultiply" /\ arg.a = 0) =>
           (ret.r = 0 /\ ret.g = 0 /\ ret.b = 0)

\* C10 as amended: at alpha 128 the round trip returns a value of at most c
\* and at least c - 2 (200 -> 100 -> 199), within 1 of c when c is even or
\* above 127; and unpremultiply at alpha 0 yields 0 in the three colour
\* channels whatever they held.
C10_RoundTripWithinTwo ==
    /\ (call.op = "roundtrip" /\ arg.a = 128) =>
           /\ ret.r <= arg.x
           /\ arg.x - ret.r <= 2
           /\ (arg.x % 2 = 0 \/ arg.x > 127) => arg.x - ret.r <= 1
           /\ arg.x = 200 => ret.r = 199
    /\ (call.op = "premultiply" /\ arg.a = 128 /\ arg.x = 200) => ret.r = 100
    /\ (call.op = "unpremultiply" /\ arg.a = 0) =>
           (ret.r = 0 /\ ret.g = 0 /\ ret.b = 0)

C10_Witness ==
    \/ call.op = "roundtrip" /\ arg.a = 128 /\ arg.x = 3 /\ ret.r = 1
    \/ call.op = "unpremultiply" /\ arg.a = 0 /\ arg.x = 200 /\ ret.r = 0

(***************************************************************************)
(* SpecSub: plutofilter_surface_make_sub as a pure function of a parent    *)
(* surface and a requested rectangle.                                      *)
(***************************************************************************)
\* Parent surfaces <<width, height, stride>>, stride >= width; 65535 is the
\* largest uint16_t.
ParentShapes ==
    {<<0, 0, 0>>, <<10, 10, 10>>, <<10, 10, 16>>, <<1, 65535, 3>>,
     <<65535, 1, 65535>>, <<65535, 10, 70000>>}
ParentBases == {0, 5}

\* Requested offsets and sizes, in and out of the parents' ranges.
SubCoords == {0, 1, 8, 9, 10, 11, 65535}

InitSub ==
    /\ mem = NoMem
    /\ pre = NoMem
    /\ call = NoCall
    /\ ret = 0
    /\ \E s \in ParentShapes, p \in ParentBases,
          x \in SubCoords, y \in SubCoords, w \in SubCoords, h \in SubCoords :
           arg = [surface |-> plutofilter_surface_make(p, s[1], s[2], s[3]),
                  x |-> x, y |-> y, width |-> w, height |-> h]

MakeSub ==
    /\ call.op = "none"
    /\ call' = [op |-> "surface_make_sub"]
    /\ ret' = plutofilter_surface_make_sub(arg.surface, arg.x, arg.y,
                                           arg.width, arg.height)
    /\ UNCHANGED <<mem, pre, arg>>

NextSub == MakeSub

SpecSub == InitSub /\ [][NextSub]_vars

\* C7: make_sub(parent, x, y, w, h) returns the view with x' = min(x,
\* parent.width), y' = min(y, parent.height), width = min(w, parent.width -
\* x'), height = min(h, parent.height - y'), the parent's stride and the
\* parent's pixel pointer offset by y' * stride + x'; so the view never
\* exceeds the parent, and a 10x10 parent at (8, 8, 10, 10) gives 2x2.
C7_MakeSubClips ==
    call.op = "surface_make_sub" =>
        LET p == arg.surface
            xc == Min(arg.x, p.width)
            yc == Min(arg.y, p.height)
        IN  /\ ret.width = Min(arg.width, p.width - xc)
            /\ ret.height = Min(arg.height, p.height - yc)
            /\ ret.stride = p.stride
            /\ ret.pixels = p.pixels + yc * p.stride + xc
            /\ xc + ret.width <= p.width
            /\ yc + ret.height <= p.height
            /\ (p.width = 10 /\ p.height = 10 /\ arg.x = 8 /\ arg.y = 8
                /\ arg.width = 10 /\ arg.height = 10)
               => (ret.width = 2 /\ ret.height = 2)

C7_Witness ==
    /\ call.op = "surface_make_sub"
    /\ arg.surface.width = 10 /\ arg.surface.height = 10
    /\ arg.x = 8 /\ arg.y = 8 /\ arg.width = 10 /\ arg.height = 10
    /\ ret.width = 2 /\ ret.height = 2


(***************************************************************************)
(* Spec: the entry points on surfaces of several pixels.  The caller owns  *)
(* three buffers of BufW x BufH words, one after the other in mem: buffer  *)
(* 0 holds in (in1), buffer 1 holds in2, buffer 2 is where a separate out  *)
(* lies.  A surface is the whole buffer or a sub-surface of it; out is a   *)
(* surface of buffer 2 or, for an in-place call, the first input itself.   *)
(***************************************************************************)
BufW == 4
BufH == 3
BufWords == BufW * BufH

Buffer(b) == plutofilter_surface_make(b * BufWords, BufW, BufH, BufW)

\* The rectangles <<x, y, width, height>> asked of plutofilter_surface_make_sub:
\* the whole buffer, one clipped at the right and bottom edges, a narrower
\* one, and an inner one.
Rects ==
    {<<0, 0, BufW, BufH>>, <<1, 1, BufW, BufH>>, <<0, 0, BufW - 1, BufH>>,
     <<1, 0, BufW - 2, BufH - 1>>}

Surfaces(b) ==
    {plutofilter_surface_make_sub(Buffer(b), r[1], r[2], r[3], r[4]) : r \in Rects}

\* The words the caller's buffers hold at entry: one colour everywhere, or a
\* different premultiplied word at every address.
Patterns == {"grey", "white", "ramp"}

PatternWord(pattern, b, i) ==
    CASE pattern = "grey" -> PLUTOFILTER_PACK_PIXEL(64, 32, 16, 128)
      [] pattern = "white" -> PLUTOFILTER_PACK_PIXEL(255, 255, 255, 255)
      [] pattern = "ramp" ->
             PLUTOFILTER_PACK_PIXEL(10 * i + b, 7 * i, 3 * i + 1, 255 - 40 * b - i)

\* What buffer 2 holds before a call has stored to it.
Sentinel == PLUTOFILTER_PACK_PIXEL(1, 2, 3, 119)

\* Standard deviations, in tenths: negative, zero, and those of kernel sizes
\* 1, 2, 3 and 564 (cut to PLUTOFILTER_MAX_KERNEL_SIZE).
Sigmas == {-10, 0, 3, 10, 15, 3000}

\* The slots of intermediate[] a kernel no larger than a surface can index.
RingSlots == 0..(Min(PLUTOFILTER_MAX_KERNEL_SIZE, Max(BufW, BufH)) - 1)

\* What the uninitialised intermediate[] may hold at entry.
RingJunk == {<<0, 0>>, <<U16 - 1, U16 - 1>>}

\* The buffer a surface lies in, and the surfaces a call reads.
BufferOf(surface) == surface.pixels \div BufWords
Inputs(c) == IF "in2" \in DOMAIN c THEN {c.in, c.in2} ELSE {c.in}

\* The surface of the same offset, size and stride in buffer b.
InBuffer(surface, b) ==
    [surface EXCEPT !.pixels = @ + (b - BufferOf(surface)) * BufWords]

\* The surface of the same offset, size and stride in buffer 2.
Separate(surface) == InBuffer(surface, 2)

Init ==
    /\ pre = NoMem
    /\ call = NoCall
    /\ arg = 0
    /\ ret = 0
    /\ \E p0 \in Patterns, p1 \in Patterns :
         mem = [i \in 0..(3 * BufWords - 1) |->
                   IF i < BufWords THEN PatternWord(p0, 0, i)
                   ELSE IF i < 2 * BufWords THEN PatternWord(p1, 1, i - BufWords)
                   ELSE Sentinel]

\* One call per behaviour: the entry points are ready while none was called.
Next ==
    /\ call = NoCall
    /\ \/ \E in \in Surfaces(0), out \in Surfaces(2) \cup Surfaces(0),
             sx \in Sigmas, sy \in Sigmas, junk \in RingJunk :
              /\ out \in Surfaces(0) => out = in
              /\ GaussianBlurCall(in, out, sx, sy, [i \in RingSlots |-> junk])
       \/ \E in \in Surfaces(0), out \in Surfaces(2) \cup Surfaces(0),
             matrix \in Matrices :
              /\ out \in Surfaces(0) => out = in
              /\ ColorTransformCall(in, out, matrix)
       \/ \E in \in Surfaces(0), out \in Surfaces(2) \cup Surfaces(0),
             amount \in Amounts :
              /\ out \in Surfaces(0) => out = in
              /\ GrayscaleCall(in, out, amount)
       \/ \E in1 \in Surfaces(0), in2 \in Surfaces(1),
             out \in Surfaces(2) \cup Surfaces(0) \cup Surfaces(1),
             mode \in BlendModes :
              /\ out \in Surfaces(0) => out = in1
              /\ out \in Surfaces(1) => out = in2
              /\ BlendCall(in1, in2, out, mode)
       \/ \E in1 \in Surfaces(0), in2 \in Surfaces(1),
             out \in Surfaces(2) \cup Surfaces(0) \cup Surfaces(1),
             operator \in CompositeOperators :
              /\ out \in Surfaces(0) => out = in1
              /\ out \in Surfaces(1) => out = in2
              /\ CompositeCall(in1, in2, out, operator)
       \/ \E in1 \in Surfaces(0), k \in Coefficients :
              \E out \in {in1, InBuffer(in1, 1), Separate(in1)} :
                 CompositeArithmeticCall(in1, InBuffer(in1, 1), out, k)
       \/ \E in \in Surfaces(0), preset \in Presets \ {"grayscale"} :
              \E out \in {in, Separate(in)} :
                 PresetCall(preset, in, out,
                            IF preset = "hue_rotate" THEN FromInt(90)
                            ELSE FHalf)
       \/ \E in \in Surfaces(0) :
              \E out \in {in, Separate(in)} : LuminanceToAlphaCall(in, out)
       \/ \E in \in Surfaces(0), oob \in OobBytes :
              \E out \in {in, Separate(in)} : SrgbToLinearRgbCall(in, out, oob)
       \/ \E in \in Surfaces(0), oob \in OobBytes :
              \E out \in {in, Separate(in)} : LinearRgbToSrgbCall(in, out, oob)

Spec == Init /\ [][Next]_vars

\* The region of a call: the smallest width and the smallest height of its
\* surfaces.
RegionWidth(c) ==
    IF "in2" \in DOMAIN c
    THEN Min(c.in.width, Min(c.in2.width, c.out.width))
    ELSE Min(c.in.width, c.out.width)

RegionHeight(c) ==
    IF "in2" \in DOMAIN c
    THEN Min(c.in.height, Min(c.in2.height, c.out.height))
    ELSE Min(c.in.height, c.out.height)

RegionAddrs(c) ==
    {PixelAddr(c.out, x, y) : x \in 0..(RegionWidth(c) - 1),
                              y \in 0..(RegionHeight(c) - 1)}

\* The words of the buffer the surface lies in.
BufferAddrs(surface) ==
    {a \in 0..(3 * BufWords - 1) : a \div BufWords = surface.pixels \div BufWords}

\* The size of the box a pass runs along a line of n pixels; 0 when the pass
\* is skipped.
EffectiveKernel(std_deviation, n) ==
    LET k == plutofilter__calc_kernel_size(std_deviation)
    IN  IF k <= 0 THEN 0
        ELSE Min(Min(k, PLUTOFILTER_MAX_KERNEL_SIZE), n)

\* The positions of a line of n pixels whose box of size k lies inside the
\* line in each of the three passes.
InteriorLo(k) == IF k = 0 THEN 0 ELSE 3 * (k - 1 - (k \div 2))
InteriorHi(k, n) == IF k = 0 THEN n - 1 ELSE n - 1 - 3 * (k \div 2)

Interior(c, x, y) ==
    LET kx == EffectiveKernel(c.std_deviation_x, RegionWidth(c))
        ky == EffectiveKernel(c.std_deviation_y, RegionHeight(c))
    IN  /\ InteriorLo(kx) <= x /\ x <= InteriorHi(kx, RegionWidth(c))
        /\ InteriorLo(ky) <= y /\ y <= InteriorHi(ky, RegionHeight(c))

\* Every pixel of the surface holds the word c.
Uniform(m, surface, c) ==
    \A x \in 0..(surface.width - 1), y \in 0..(surface.height - 1) :
        At(m, surface, x, y) = c

\* No channel of p is above the same channel of q.
ChannelsAtMost(p, q) ==
    /\ PLUTOFILTER_RED(p) <= PLUTOFILTER_RED(q)
    /\ PLUTOFILTER_GREEN(p) <= PLUTOFILTER_GREEN(q)
    /\ PLUTOFILTER_BLUE(p) <= PLUTOFILTER_BLUE(q)
    /\ PLUTOFILTER_ALPHA(p) <= PLUTOFILTER_ALPHA(q)

\* C3: a Gaussian blur whose two kernel sizes are 0 or less copies the
\* region: afterwards every pixel (x, y) of the region of out, addressed with
\* the stride of out, holds the word the pixel (x, y) of in, addressed with
\* the stride of in, held at entry.
C3_SigmaZeroCopiesRegion ==
    (/\ call.op = "gaussian_blur"
     /\ plutofilter__calc_kernel_size(call.std_deviation_x) <= 0
     /\ plutofilter__calc_kernel_size(call.std_deviation_y) <= 0)
    => \A x \in 0..(RegionWidth(call) - 1), y \in 0..(RegionHeight(call) - 1) :
           At(mem, call.out, x, y) = At(pre, call.in, x, y)

\* C4 as stated: a Gaussian blur of a surface whose pixels all hold the word
\* c, with both kernel sizes between 1 and PLUTOFILTER_MAX_KERNEL_SIZE,
\* stores c at every pixel of the region.
C4_UniformStaysUniform ==
    (/\ call.op = "gaussian_blur"
     /\ plutofilter__calc_kernel_size(call.std_deviation_x)
            \in 1..PLUTOFILTER_MAX_KERNEL_SIZE
     /\ plutofilter__calc_kernel_size(call.std_deviation_y)
            \in 1..PLUTOFILTER_MAX_KERNEL_SIZE)
    => \A c \in {At(pre, call.in, 0, 0)} :
           Uniform(pre, call.in, c)
           => \A x \in 0..(RegionWidth(call) - 1),
                 y \in 0..(RegionHeight(call) - 1) :
                  At(mem, call.out, x, y) = c

\* C4 amended: a Gaussian blur (with a kernel size above 0) of a surface
\* whose pixels all hold the word c stores c at every pixel of the region
\* whose box lies inside the region in all three passes, and stores at no
\* pixel of the region a channel above that of c.
C4_UniformInterior ==
    (/\ call.op = "gaussian_blur"
     /\ (plutofilter__calc_kernel_size(call.std_deviation_x) > 0
         \/ plutofilter__calc_kernel_size(call.std_deviation_y) > 0))
    => \A c \in {At(pre, call.in, 0, 0)} :
           Uniform(pre, call.in, c)
           => \A x \in 0..(RegionWidth(call) - 1),
                 y \in 0..(RegionHeight(call) - 1) :
                  /\ Interior(call, x, y) => At(mem, call.out, x, y) = c
                  /\ ChannelsAtMost(At(mem, call.out, x, y), c)

\* A blur of a uniform surface with kernel sizes 2 and 1 has left c at an
\* interior pixel of the first row and another word at its last pixel.
C4_Witness ==
    /\ call.op = "gaussian_blur"
    /\ EffectiveKernel(call.std_deviation_x, RegionWidth(call)) = 2
    /\ EffectiveKernel(call.std_deviation_y, RegionHeight(call)) = 1
    /\ Uniform(pre, call.in, At(pre, call.in, 0, 0))
    /\ Interior(call, 0, 0)
    /\ At(mem, call.out, 0, 0) = At(pre, call.in, 0, 0)
    /\ ~Interior(call, RegionWidth(call) - 1, 0)
    /\ At(mem, call.out, RegionWidth(call) - 1, 0) # At(pre, call.in, 0, 0)

\* C5: a call changes no word of the buffer of out other than the pixels of
\* the region of out.
C5_FrameOutsideRegion ==
    call.op # "none"
    => \A a \in BufferAddrs(call.out) \ RegionAddrs(call) : mem[a] = pre[a]

\* The entry point a call record names, on the memory m with the output
\* surface out.
ApplyCall(c, m, out) ==
    CASE c.op = "color_transform" ->
             plutofilter_color_transform(m, c.in, out, c.matrix)
      [] c.op \in Presets ->
             plutofilter_color_transform(m, c.in, out,
                                         PresetMatrix(c.op, c.amount))
      [] c.op = "luminance_to_alpha" ->
             plutofilter_color_transform_luminance_to_alpha(m, c.in, out)
      [] c.op = "srgb_to_linear_rgb" ->
             plutofilter_color_transform_srgb_to_linear_rgb(m, c.in, out, c.oob)
      [] c.op = "linear_rgb_to_srgb" ->
             plutofilter_color_transform_linear_rgb_to_srgb(m, c.in, out, c.oob)
      [] c.op = "blend" -> plutofilter_blend(m, c.in, c.in2, out, c.mode)
      [] c.op = "composite" ->
             plutofilter_composite(m, c.in, c.in2, out, c.operator)
      [] c.op = "composite_arithmetic" ->
             plutofilter_composite_arithmetic(m, c.in, c.in2, out, c.k)

PerPixelOps ==
    {"color_transform", "luminance_to_alpha", "srgb_to_linear_rgb",
     "linear_rgb_to_srgb", "blend", "composite", "composite_arithmetic"}
    \cup Presets

\* C17: when out lies in a buffer none of the inputs lies in, a call of any
\* operation leaves every word of the buffers of its inputs as it was at
\* entry.
C17_InputsUnwritten ==
    (/\ call.op # "none"
     /\ \A in \in Inputs(call) : BufferOf(in) # BufferOf(call.out))
    => \A in \in Inputs(call) :
           \A a \in BufferAddrs(in) : mem[a] = pre[a]

\* A Gaussian blur with kernel sizes 2 and 3 has stored to a separate out
\* and left the buffer of in as it was.
C17_Witness ==
    /\ call.op = "gaussian_blur"
    /\ plutofilter__calc_kernel_size(call.std_deviation_x) = 2
    /\ plutofilter__calc_kernel_size(call.std_deviation_y) = 3
    /\ BufferOf(call.out) = 2
    /\ \E a \in BufferAddrs(call.out) : mem[a] # pre[a]
    /\ \A a \in BufferAddrs(call.in) : mem[a] = pre[a]

\* C18: a per-pixel operation called with out identical to one of its input
\* surfaces leaves at every pixel of the region the word that the same call,
\* on the same memory, stores to a separate out.
C18_InPlaceEqualsSeparate ==
    (/\ call.op \in PerPixelOps
     /\ call.out \in Inputs(call))
    => LET separate == ApplyCall(call, pre, Separate(call.out))
       IN  \A x \in 0..(RegionWidth(call) - 1),
              y \in 0..(RegionHeight(call) - 1) :
               At(mem, call.out, x, y) = At(separate, Separate(call.out), x, y)

\* A blend with out identical to in2 has changed the pixels of in2.
C18_Witness ==
    /\ call.op = "blend"
    /\ call.out = call.in2
    /\ RegionWidth(call) > 1
    /\ \E x \in 0..(RegionWidth(call) - 1), y \in 0..(RegionHeight(call) - 1) :
           At(mem, call.out, x, y) # At(pre, call.out, x, y)
    /\ \A x \in 0..(RegionWidth(call) - 1), y \in 0..(RegionHeight(call) - 1) :
           At(mem, call.out, x, y)
           = BlendPixel(call.mode, At(pre, call.in, x, y),
                        At(pre, call.in2, x, y))

\* The sum of the channels of line[lo], ..., line[hi].
RECURSIVE ChannelSum(_, _, _)
ChannelSum(line, lo, hi) ==
    IF lo > hi THEN [r |-> 0, g |-> 0, b |-> 0, a |-> 0]
    ELSE LET u == PLUTOFILTER_UNPACK_PIXEL(line[lo])
             rest == ChannelSum(line, lo + 1, hi)
         IN  [r |-> u.r + rest.r, g |-> u.g + rest.g, b |-> u.b + rest.b,
              a |-> u.a + rest.a]

\* The box blur of size k of a line of n words at position o: the sum of the
\* k words that end k / 2 after o, those outside the line left out, over k.
BoxAt(line, n, k, o) ==
    LET sum == ChannelSum(line, Max(0, o + k \div 2 - k + 1),
                          Min(n - 1, o + k \div 2))
    IN  PLUTOFILTER_PACK_PIXEL(sum.r \div k, sum.g \div k, sum.b \div k,
                               sum.a \div k)

\* An image is a function of <<x, y>>.  The horizontal box blur of an image,
\* the vertical one, and the vertical one of the horizontal one.
HorizontalBox(image, w, h, k) ==
    [p \in (0..(w - 1)) \X (0..(h - 1)) |->
        BoxAt([x \in 0..(w - 1) |-> image[<<x, p[2]>>]], w, k, p[1])]

VerticalBox(image, w, h, k) ==
    [p \in (0..(w - 1)) \X (0..(h - 1)) |->
        BoxAt([y \in 0..(h - 1) |-> image[<<p[1], y>>]], h, k, p[2])]

BoxPass(image, w, h, kx, ky) ==
    LET horizontal == HorizontalBox(image, w, h, kx)
    IN  VerticalBox(horizontal, w, h, ky)

\* C20: with both kernel sizes at least 1, a Gaussian blur stores three
\* successive applications of (horizontal box blur, then vertical box blur
\* of the horizontal result) to the input, whether out is in or a separate
\* buffer.
C20_ThreeBoxPasses ==
    (/\ call.op = "gaussian_blur"
     /\ plutofilter__calc_kernel_size(call.std_deviation_x) >= 1
     /\ plutofilter__calc_kernel_size(call.std_deviation_y) >= 1)
    => LET w == RegionWidth(call)
           h == RegionHeight(call)
           kx == EffectiveKernel(call.std_deviation_x, w)
           ky == EffectiveKernel(call.std_deviation_y, h)
           image == [p \in (0..(w - 1)) \X (0..(h - 1)) |->
                        At(pre, call.in, p[1], p[2])]
           one == BoxPass(image, w, h, kx, ky)
           two == BoxPass(one, w, h, kx, ky)
           three == BoxPass(two, w, h, kx, ky)
       IN  \A p \in (0..(w - 1)) \X (0..(h - 1)) :
               At(mem, call.out, p[1], p[2]) = three[p]

(***************************************************************************)
(* SpecColor: the colour operations of one input on 1x1 surfaces.  The     *)
(* input word is premultiplied (opaque with any colour, or of a sampled    *)
(* alpha) or has a channel above its alpha.                                *)
(***************************************************************************)
OpaqueSamples == {0, 13, 128, 255}

ColorWords ==
    {PLUTOFILTER_PACK_PIXEL(r, g, b, 255) :
         r \in OpaqueSamples, g \in OpaqueSamples, b \in OpaqueSamples}
    \cup UNION {{PixelOf(c, a) : c \in ChannelSamples(a)} : a \in AlphaSamples}
    \cup {PLUTOFILTER_PACK_PIXEL(255, 128, 0, 1),
          PLUTOFILTER_PACK_PIXEL(128, 255, 13, 128),
          PLUTOFILTER_PACK_PIXEL(255, 255, 255, 0)}

\* The amounts of the presets, and the angles of hue-rotate in degrees.
PresetArgs(preset) ==
    IF preset = "hue_rotate" THEN {FZero, FromInt(90), FromInt(180)}
    ELSE Amounts \cup {FromInt(2)}

InitColor ==
    /\ pre = NoMem
    /\ call = NoCall
    /\ arg = 0
    /\ ret = 0
    /\ \E w \in ColorWords :
         mem = [i \in 0..2 |-> IF i = 0 THEN w ELSE <<0, 0>>]

NextColor ==
    /\ call = NoCall
    /\ \/ \E preset \in Presets \ {"grayscale"} :
            \E amount \in PresetArgs(preset) :
               PresetCall(preset, PxIn1, PxOut, amount)
       \/ \E amount \in Amounts : GrayscaleCall(PxIn1, PxOut, amount)
       \/ LuminanceToAlphaCall(PxIn1, PxOut)
       \/ \E oob \in OobBytes : SrgbToLinearRgbCall(PxIn1, PxOut, oob)
       \/ \E oob \in OobBytes : LinearRgbToSrgbCall(PxIn1, PxOut, oob)

SpecColor == InitColor /\ [][NextColor]_vars

\* The word the call read at (0, 0) of in, unpremultiplied, and the word it
\* stored at (0, 0) of out.
InStraight == PLUTOFILTER_UNPREMULTIPLY_PIXEL(
                  PLUTOFILTER_UNPACK_PIXEL(At(pre, call.in, 0, 0)))
OutWord == At(mem, call.out, 0, 0)

\* C11: grayscale with amount 1 stores, for every input pixel of alpha 255,
\* red = green = blue = l and alpha 255, where l is 0.2126 R + 0.7152 G +
\* 0.0722 B truncated (l <= that value <= l + 1); for the pixel R = 255,
\* G = 0, B = 0 the value l is 54.
C11_GrayscaleOneIsGrey ==
    (/\ call.op = "grayscale"
     /\ call.amount = FOne
     /\ PLUTOFILTER_ALPHA(At(pre, call.in, 0, 0)) = 255)
    => LET l == PLUTOFILTER_RED(OutWord)
           n == 2126 * InStraight.r + 7152 * InStraight.g + 722 * InStraight.b
       IN  /\ OutWord = PLUTOFILTER_PACK_PIXEL(l, l, l, 255)
           /\ 10000 * l <= n /\ n <= 10000 * (l + 1)
           /\ At(pre, call.in, 0, 0) = PLUTOFILTER_PACK_PIXEL(255, 0, 0, 255)
              => l = 54

\* Grayscale with amount 1 has turned opaque red into the grey 54.
C11_Witness ==
    /\ call.op = "grayscale"
    /\ call.amount = FOne
    /\ At(pre, call.in, 0, 0) = PLUTOFILTER_PACK_PIXEL(255, 0, 0, 255)
    /\ OutWord = PLUTOFILTER_PACK_PIXEL(54, 54, 54, 255)

\* C12: luminance-to-alpha stores red = green = blue = 0 and alpha = the
\* value 0.2126 R + 0.7152 G + 0.0722 B of the unpremultiplied input
\* channels, truncated and clamped to 0..255, for every input pixel.
C12_LuminanceToAlphaDocumented ==
    call.op = "luminance_to_alpha"
    => LET n == 2126 * InStraight.r + 7152 * InStraight.g + 722 * InStraight.b
       IN  OutWord = PLUTOFILTER_PACK_PIXEL(0, 0, 0, Min(n \div 10000, 255))

\* C19: brightness, invert, contrast, saturate, grayscale, sepia, hue-rotate
\* and the two conversions between sRGB and linear RGB store the alpha of
\* the input pixel.
C19_AlphaPreserved ==
    call.op \in {"brightness", "invert", "contrast", "saturate", "grayscale",
                 "sepia", "hue_rotate", "srgb_to_linear_rgb",
                 "linear_rgb_to_srgb"}
    => PLUTOFILTER_ALPHA(OutWord) = PLUTOFILTER_ALPHA(At(pre, call.in, 0, 0))

\* Invert with amount 1 has changed the colour of a pixel of alpha 128 and
\* kept its alpha.
C19_Witness ==
    /\ call.op = "invert"
    /\ call.amount = FOne
    /\ PLUTOFILTER_ALPHA(At(pre, call.in, 0, 0)) = 128
    /\ PLUTOFILTER_ALPHA(OutWord) = 128
    /\ OutWord # At(pre, call.in, 0, 0)

\* C30: in the two conversions between sRGB and linear RGB the index of
\* every read of the 256-entry table, the unpremultiplied channel, lies in
\* 0..255 for every input pixel word, also when a colour channel of the word
\* is above its alpha.
C30_TableIndexInRange ==
    call.op \in {"srgb_to_linear_rgb", "linear_rgb_to_srgb"}
    => /\ InStraight.r \in 0..255
       /\ InStraight.g \in 0..255
       /\ InStraight.b \in 0..255

(***************************************************************************)
(* SpecWord: blend, composite and arithmetic composite on 1x1 surfaces,    *)
(* for pairs of pixel words whose channels need not be below their alpha.  *)
(***************************************************************************)
WordSamples == {0, 128, 255}

Words ==
    {PLUTOFILTER_PACK_PIXEL(r, g, b, a) :
         r \in WordSamples, g \in WordSamples, b \in WordSamples,
         a \in WordSamples}

InitWord ==
    /\ pre = NoMem
    /\ call = NoCall
    /\ arg = 0
    /\ ret = 0
    /\ \E src \in Words \cup {PixelOf(1, 2), PixelOf(13, 64), PixelOf(95, 191)},
          dst \in Words :
         mem = [i \in 0..2 |->
                    IF i = 0 THEN src ELSE IF i = 1 THEN dst ELSE <<0, 0>>]

NextWord ==
    /\ call = NoCall
    /\ \/ \E mode \in BlendModes : BlendCall(PxIn1, PxIn2, PxOut, mode)
       \/ \E operator \in CompositeOperators :
              CompositeCall(PxIn1, PxIn2, PxOut, operator)
       \/ \E k \in Coefficients :
              CompositeArithmeticCall(PxIn1, PxIn2, PxOut, k)

SpecWord == InitWord /\ [][NextWord]_vars

\* The channels of the words the call read at (0, 0) of in1 and of in2.
SrcChannels == PLUTOFILTER_UNPACK_PIXEL(At(pre, call.in, 0, 0))
DstChannels == PLUTOFILTER_UNPACK_PIXEL(At(pre, call.in2, 0, 0))

White == PLUTOFILTER_PACK_PIXEL(255, 255, 255, 255)

\* C13: blend in mode normal with the source word 0xFFFFFFFF stores
\* 0xFFFFFFFF for every backdrop word, of any alpha.
C13_WhiteSourceStays ==
    (/\ call.op = "blend"
     /\ call.mode = "normal"
     /\ At(pre, call.in, 0, 0) = White)
    => OutWord = White

\* Normal blend has stored white over a backdrop of alpha 128.
C13_Witness ==
    /\ call.op = "blend"
    /\ call.mode = "normal"
    /\ At(pre, call.in, 0, 0) = White
    /\ DstChannels.a = 128
    /\ DstChannels.r = 255
    /\ OutWord = White

\* C14: the arithmetic composite with (k1, k2, k3, k4) = (0, 1, 0, 0)
\* stores the word of in1 for every pair of input words, and with
\* (1, 0, 0, 0) stores in each of the four channels floor(s * d / 255) of
\* the two inputs' channels.
C14_ArithmeticSelects ==
    call.op = "composite_arithmetic"
    => /\ call.k = <<FZero, FOne, FZero, FZero>>
          => OutWord = At(pre, call.in, 0, 0)
       /\ call.k = <<FOne, FZero, FZero, FZero>>
          => OutWord = PLUTOFILTER_PACK_PIXEL(
                           (SrcChannels.r * DstChannels.r) \div 255,
                           (SrcChannels.g * DstChannels.g) \div 255,
                           (SrcChannels.b * DstChannels.b) \div 255,
                           (SrcChannels.a * DstChannels.a) \div 255)

\* The product-only composite has stored 64 = floor(128 * 128 / 255) in red
\* and 128 = 255 * 128 / 255 in alpha.
C14_Witness ==
    /\ call.op = "composite_arithmetic"
    /\ call.k = <<FOne, FZero, FZero, FZero>>
    /\ SrcChannels.r = 128 /\ DstChannels.r = 128
    /\ SrcChannels.a = 255 /\ DstChannels.a = 128
    /\ PLUTOFILTER_RED(OutWord) = 64
    /\ PLUTOFILTER_ALPHA(OutWord) = 128

\* C15: for every pair of input words, every blend mode and every composite
\* operator, each stored channel is the value of that channel's formula
\* clamped to 0..255, so no channel changes the bits of another.
C15_ChannelsClamped ==
    /\ call.op = "blend"
       => OutWord = PLUTOFILTER_PACK_PIXEL(
              PLUTOFILTER_CLAMP_PIXEL(BlendOp(call.mode, SrcChannels.r,
                  DstChannels.r, SrcChannels.a, DstChannels.a)),
              PLUTOFILTER_CLAMP_PIXEL(BlendOp(call.mode, SrcChannels.g,
                  DstChannels.g, SrcChannels.a, DstChannels.a)),
              PLUTOFILTER_CLAMP_PIXEL(BlendOp(call.mode, SrcChannels.b,
                  DstChannels.b, SrcChannels.a, DstChannels.a)),
              PLUTOFILTER_CLAMP_PIXEL(SrcChannels.a + DstChannels.a
                  - plutofilter__div255(SrcChannels.a * DstChannels.a)))
    /\ call.op = "composite"
       => LET f == CompositeChannels(call.operator, At(pre, call.in, 0, 0),
                                     At(pre, call.in2, 0, 0))
          IN  OutWord = PLUTOFILTER_PACK_PIXEL(PLUTOFILTER_CLAMP_PIXEL(f.r),
                                               PLUTOFILTER_CLAMP_PIXEL(f.g),
                                               PLUTOFILTER_CLAMP_PIXEL(f.b),
                                               PLUTOFILTER_CLAMP_PIXEL(f.a))

\* C16: for every (s, d, sa, da), also with s > sa or d > da, color-dodge
\* reaches its division by sa - s only with sa # s, color-burn its division
\* by s only with s # 0, and soft-light divides by da only when da # 0.
C16_NoDivisionByZero ==
    call.op = "blend"
    => /\ 0 \notin BlendDivisors(call.mode, SrcChannels.r, DstChannels.r,
                                 SrcChannels.a, DstChannels.a)
       /\ 0 \notin BlendDivisors(call.mode, SrcChannels.g, DstChannels.g,
                                 SrcChannels.a, DstChannels.a)
       /\ 0 \notin BlendDivisors(call.mode, SrcChannels.b, DstChannels.b,
                                 SrcChannels.a, DstChannels.a)

\* Color-dodge has reached its division with s > sa and d > da: the divisor
\* is -128.
C16_Witness ==
    /\ call.op = "blend"
    /\ call.mode = "color_dodge"
    /\ SrcChannels.r = 128 /\ SrcChannels.a = 0
    /\ DstChannels.r = 128 /\ DstChannels.a = 0
    /\ BlendDivisors("color_dodge", 128, 128, 0, 0) = {-128}

\* C26: a blend of the fully transparent source word 0 with any
\* premultiplied backdrop pixel stores the backdrop pixel, in each of the 12
\* blend modes.
C26_TransparentSourceKeepsBackdrop ==
    (/\ call.op = "blend"
     /\ At(pre, call.in, 0, 0) = <<0, 0>>
     /\ Premultiplied(At(pre, call.in2, 0, 0)))
    => OutWord = At(pre, call.in2, 0, 0)

CommutativeModes ==
    {"multiply", "screen", "darken", "lighten", "difference", "exclusion"}

\* C27: in the modes multiply, screen, darken, lighten, difference and
\* exclusion, the blend of (in1 = p, in2 = q) stores the word that the blend
\* of (in1 = q, in2 = p) stores, for every pair of pixel words p and q.
C27_CommutativeModes ==
    (call.op = "blend" /\ call.mode \in CommutativeModes)
    => OutWord = BlendPixel(call.mode, At(pre, call.in2, 0, 0),
                            At(pre, call.in, 0, 0))

\* Darken of two different words, one of them with a channel above its
\* alpha, has stored a word that is neither of them.
C27_Witness ==
    /\ call.op = "blend"
    /\ call.mode = "darken"
    /\ At(pre, call.in, 0, 0) = PLUTOFILTER_PACK_PIXEL(255, 128, 0, 128)
    /\ At(pre, call.in2, 0, 0) = PLUTOFILTER_PACK_PIXEL(128, 128, 255, 255)
    /\ OutWord # At(pre, call.in, 0, 0)
    /\ OutWord # At(pre, call.in2, 0, 0)
    /\ OutWord = BlendPixel("darken", At(pre, call.in2, 0, 0),
                            At(pre, call.in, 0, 0))

\* C28: the blend in mode overlay with source p and backdrop q stores the
\* word that the blend in mode hard-light with source q and backdrop p
\* stores, for every pair of pixel words p and q.
C28_OverlayHardLightDual ==
    (call.op = "blend" /\ call.mode = "overlay")
    => OutWord = BlendPixel("hard_light", At(pre, call.in2, 0, 0),
                            At(pre, call.in, 0, 0))

\* Overlay of a light source on a dark backdrop has stored a word that
\* overlay with the two exchanged does not store.
C28_Witness ==
    /\ call.op = "blend"
    /\ call.mode = "overlay"
    /\ At(pre, call.in, 0, 0) = PLUTOFILTER_PACK_PIXEL(255, 128, 0, 255)
    /\ At(pre, call.in2, 0, 0) = PLUTOFILTER_PACK_PIXEL(0, 128, 128, 255)
    /\ OutWord = BlendPixel("hard_light", At(pre, call.in2, 0, 0),
                            At(pre, call.in, 0, 0))
    /\ OutWord # BlendPixel("overlay", At(pre, call.in2, 0, 0),
                            At(pre, call.in, 0, 0))

\* The factors <<Fs, Fd>> of the Porter-Duff operators, as scalars of
\* 0..255, and the channel they give: div255(s * Fs) + div255(d * Fd).
PorterDuffFactors(operator, sa, da) ==
    CASE operator = "over" -> <<255, 255 - sa>>
      [] operator = "in" -> <<da, 0>>
      [] operator = "out" -> <<255 - da, 0>>
      [] operator = "atop" -> <<da, 255 - sa>>
      [] operator = "xor" -> <<255 - da, 255 - sa>>

PorterDuffChannel(operator, s, d, sa, da) ==
    LET f == PorterDuffFactors(operator, sa, da)
    IN  plutofilter__div255(s * f[1]) + plutofilter__div255(d * f[2])

\* C25: each Porter-Duff operator stores, for every colour channel,
\* div255(s * Fs) + div255(d * Fd) with (Fs, Fd) = over (255, 255 - sa),
\* in (da, 0), out (255 - da, 0), atop (da, 255 - sa), xor (255 - da,
\* 255 - sa); the stored alpha is the same formula of (sa, da) for over, in,
\* out and xor, and the backdrop alpha da for atop.
C25_PorterDuffFormulas ==
    call.op = "composite"
    => LET s == SrcChannels
           d == DstChannels
           V(sc, dc) == PorterDuffChannel(call.operator, sc, dc, s.a, d.a)
           value == [r |-> V(s.r, d.r), g |-> V(s.g, d.g), b |-> V(s.b, d.b),
                     a |-> IF call.operator = "atop" THEN d.a
                           ELSE V(s.a, d.a)]
       IN  /\ CompositeChannels(call.operator, At(pre, call.in, 0, 0),
                                At(pre, call.in2, 0, 0)) = value
           /\ OutWord = PLUTOFILTER_PACK_PIXEL(value.r, value.g, value.b,
                                               value.a)

\* Atop of a source of alpha 128 on a backdrop of alpha 255 has stored red
\* div255(128 * 255) + div255(255 * 127) = 255 and alpha 255.
C25_Witness ==
    /\ call.op = "composite"
    /\ call.operator = "atop"
    /\ SrcChannels.a = 128 /\ SrcChannels.r = 128
    /\ DstChannels.a = 255 /\ DstChannels.r = 255
    /\ PLUTOFILTER_RED(OutWord) = 255
    /\ PLUTOFILTER_ALPHA(OutWord) = 255

(***************************************************************************)
(* SpecAlpha: blend on 1x1 surfaces for every pair of alphas.  The source  *)
(* holds its alpha in red and half of it in green, the backdrop its alpha  *)
(* in blue and half of it in green.                                        *)
(***************************************************************************)
InitAlpha ==
    /\ pre = NoMem
    /\ call = NoCall
    /\ arg = 0
    /\ ret = 0
    /\ \E sa \in 0..255, da \in 0..255 :
         mem = [i \in 0..2 |->
                    IF i = 0 THEN PLUTOFILTER_PACK_PIXEL(sa, sa \div 2, 0, sa)
                    ELSE IF i = 1
                    THEN PLUTOFILTER_PACK_PIXEL(0, da \div 2, da, da)
                    ELSE <<0, 0>>]

NextAlpha ==
    /\ call = NoCall
    /\ \E mode \in BlendModes : BlendCall(PxIn1, PxIn2, PxOut, mode)

SpecAlpha == InitAlpha /\ [][NextAlpha]_vars

\* C24: for every blend mode and every pair of input pixels the stored alpha
\* is sa + da - div255(sa * da), and for all sa, da in 0..255 this value is
\* at least max(sa, da) and at most 255, so the clamp does not change it.
C24_BlendAlpha ==
    call.op = "blend"
    => LET sa == SrcChannels.a
           da == DstChannels.a
           v == sa + da - plutofilter__div255(sa * da)
       IN  /\ PLUTOFILTER_ALPHA(OutWord) = v
           /\ Max(sa, da) <= v
           /\ v <= 255

\* A blend of two pixels of alpha 128 has stored alpha 192.
C24_Witness ==
    /\ call.op = "blend"
    /\ call.mode = "exclusion"
    /\ SrcChannels.a = 128
    /\ DstChannels.a = 128
    /\ PLUTOFILTER_ALPHA(OutWord) = 192

(***************************************************************************)
(* SpecBox: the gaussian blur one loop iteration at a time.  `call` holds  *)
(* the position in plutofilter_gaussian_blur (which of the six sections,   *)
(* three box blurs of a horizontal and a vertical pass each, is running,   *)
(* with its kernel and the memory at its start), `arg` the locals of the   *)
(* running pass and `ret` a log of the current line.                       *)
(***************************************************************************)
BoxRects ==
    {<<0, 0, BufW, BufH>>, <<1, 0, BufW - 2, BufH - 1>>, <<0, 0, 0, BufH>>,
     <<0, 0, BufW, 0>>}

BoxSurfaces ==
    {plutofilter_surface_make_sub(Buffer(0), r[1], r[2], r[3], r[4]) :
        r \in BoxRects}

BoxSigmas == {-10, 0, 3, 10, 15, 3000}

RingOf(junk) == [i \in RingSlots |-> junk]

EmptyLog ==
    [stores |-> <<>>, written |-> {}, index |-> -1, modulus |-> -1,
     stored |-> FALSE, offset |-> -1, read_unwritten |-> FALSE]

\* Sections 0, 2, 4 are the horizontal passes of the three box blurs and
\* sections 1, 3, 5 their vertical passes.
Horizontal(section) == section % 2 = 0

\* if(kernel_width > 0) and if(kernel_height > 0) in plutofilter__box_blur.
SectionRuns(c, section) ==
    IF Horizontal(section) THEN c.kernel_width > 0 ELSE c.kernel_height > 0

RECURSIVE NextSectionFrom(_, _)
NextSectionFrom(c, section) ==
    IF section > 5 THEN 6
    ELSE IF SectionRuns(c, section) THEN section
    ELSE NextSectionFrom(c, section + 1)

\* The first box blur reads `in`, the second and the third read `out`.
SectionIn(c) == IF c.section < 2 THEN c.in ELSE c.out

\* The position at the start of a section: the lines are the rows of `out`
\* with kernel min(kernel_width, out.width) in a horizontal pass and the
\* columns with kernel min(kernel_height, out.height) in a vertical pass.
EnterSection(c, section, m) ==
    LET horiz == Horizontal(section)
        n == IF horiz THEN c.out.width ELSE c.out.height
    IN  [c EXCEPT !.section = section,
                  !.n = n,
                  !.lines = IF horiz THEN c.out.height ELSE c.out.width,
                  !.k = PassKernel(IF horiz THEN c.kernel_width
                                   ELSE c.kernel_height, n),
                  !.pass_mem = m]

\* plutofilter_gaussian_blur up to the first loop iteration of the first
\* pass, or all of it when both kernels are zero.
GaussianBlurEnter(in0, out0, std_deviation_x, std_deviation_y, ring0) ==
    /\ call.op = "none"
    /\ pre' = mem
    /\ LET ov == PLUTOFILTER_OVERLAP_SURFACE(in0, out0)
           in == ov[1]
           out == ov[2]
           kernel_width == plutofilter__calc_kernel_size(std_deviation_x)
           kernel_height == plutofilter__calc_kernel_size(std_deviation_y)
           c0 == [op |-> "box_blur", in |-> in, out |-> out,
                  std_deviation_x |-> std_deviation_x,
                  std_deviation_y |-> std_deviation_y,
                  kernel_width |->
                      IF kernel_width > PLUTOFILTER_MAX_KERNEL_SIZE
                      THEN PLUTOFILTER_MAX_KERNEL_SIZE ELSE kernel_width,
                  kernel_height |->
                      IF kernel_height > PLUTOFILTER_MAX_KERNEL_SIZE
                      THEN PLUTOFILTER_MAX_KERNEL_SIZE ELSE kernel_height,
                  ring0 |-> ring0, section |-> 0, n |-> 0, lines |-> 0,
                  k |-> 0, pass_mem |-> mem]
       IN  IF kernel_width <= 0 /\ kernel_height <= 0
           THEN /\ mem' = CopyWords(mem, in, out, 0, out.width * out.height)
                /\ call' = [c0 EXCEPT !.op = "copied"]
                /\ arg' = arg
                /\ ret' = EmptyLog
           ELSE /\ mem' = mem
                /\ call' = EnterSection(c0, NextSectionFrom(c0, 0), mem)
                /\ arg' = [mem |-> mem, ring |-> ring0, i |-> 0, line |-> 0,
                           sum_r |-> 0, sum_g |-> 0, sum_b |-> 0,
                           sum_a |-> 0]
                /\ ret' = EmptyLog

\* One iteration of one of the three loops of a line.  The second and the
\* third loop read the ring slot i % k, the first and the second write it;
\* the first and the third store when the offset is inside the line, the
\* second stores always.
BoxBlurStep ==
    /\ call.op = "box_blur"
    /\ arg.line < call.lines
    /\ arg.i < call.n + call.k
    /\ LET horiz == Horizontal(call.section)
           offset == arg.i - (call.k \div 2)
           slot == arg.i % call.k
           slide == arg.i >= call.k /\ arg.i < call.n
           stored == slide \/ (offset >= 0 /\ offset < call.n)
       IN  /\ arg' = BlurStep(arg, SectionIn(call), call.out, horiz, call.n,
                              call.k)
           /\ ret' = [stores |-> IF stored THEN Append(ret.stores, offset)
                                 ELSE ret.stores,
                      written |-> IF arg.i < call.n
                                  THEN ret.written \cup {slot}
                                  ELSE ret.written,
                      index |-> slot,
                      modulus |-> call.k,
                      stored |-> stored,
                      offset |-> offset,
                      read_unwritten |->
                          \/ ret.read_unwritten
                          \/ (arg.i >= call.k /\ slot \notin ret.written)]
    /\ mem' = arg'.mem
    /\ UNCHANGED <<pre, call>>

\* The end of the body of the loop over the lines: the next line starts
\* with sums of zero and the ring as the last line left it.
BoxBlurLineEnd ==
    /\ call.op = "box_blur"
    /\ arg.line < call.lines
    /\ arg.i >= call.n + call.k
    /\ arg' = [arg EXCEPT !.line = @ + 1, !.i = 0, !.sum_r = 0, !.sum_g = 0,
                          !.sum_b = 0, !.sum_a = 0]
    /\ ret' = EmptyLog
    /\ UNCHANGED <<mem, pre, call>>

\* The end of a pass: the next pass that runs starts, or the blur returns.
BoxBlurSectionEnd ==
    /\ call.op = "box_blur"
    /\ arg.line >= call.lines
    /\ LET section == NextSectionFrom(call, call.section + 1)
       IN  IF section > 5
           THEN call' = [call EXCEPT !.op = "blurred"]
           ELSE call' = EnterSection(call, section, mem)
    /\ arg' = [arg EXCEPT !.line = 0, !.i = 0, !.sum_r = 0, !.sum_g = 0,
                          !.sum_b = 0, !.sum_a = 0]
    /\ ret' = EmptyLog
    /\ UNCHANGED <<mem, pre>>

InitBox ==
    /\ pre = NoMem
    /\ call = NoCall
    /\ arg = 0
    /\ ret = 0
    /\ \E p0 \in {"grey", "ramp"} :
         mem = [i \in 0..(3 * BufWords - 1) |->
                   IF i < 2 * BufWords THEN PatternWord(p0, 0, i)
                   ELSE Sentinel]

NextBox ==
    \/ \E in \in BoxSurfaces, sx \in BoxSigmas, sy \in BoxSigmas,
          junk \in RingJunk :
         \E out \in {in, Separate(in)} :
           GaussianBlurEnter(in, out, sx, sy, RingOf(junk))
    \/ BoxBlurStep
    \/ BoxBlurLineEnd
    \/ BoxBlurSectionEnd

SpecBox == InitBox /\ [][NextBox]_vars

\* The pixels of the current line as the running pass found them: the
\* words of its input surface in the memory at the start of the pass.
SectionLine ==
    [q \in 0..(call.n - 1) |->
        LET x == IF Horizontal(call.section) THEN q ELSE arg.line
            y == IF Horizontal(call.section) THEN arg.line ELSE q
        IN  call.pass_mem[PixelAddr(SectionIn(call), x, y)]]

\* The word of `out` at the position of the current line the last iteration
\* stored to.
StoredWord ==
    LET x == IF Horizontal(call.section) THEN ret.offset ELSE arg.line
        y == IF Horizontal(call.section) THEN arg.line ELSE ret.offset
    IN  mem[PixelAddr(call.out, x, y)]

\* min(floor(sigma * 1.8799712 + 0.5), 512) of the direction of the running
\* pass.
FullKernel ==
    Min(plutofilter__calc_kernel_size(IF Horizontal(call.section)
                                      THEN call.std_deviation_x
                                      ELSE call.std_deviation_y),
        PLUTOFILTER_MAX_KERNEL_SIZE)

\* C22: in a row pass and in a column pass with effective kernel k on a line
\* of W pixels, when position p is stored each running sum is the sum of the
\* channel over the pixels q of the pass's input with
\* p + k / 2 - k + 1 <= q <= p + k / 2 and 0 <= q < W; no position outside
\* 0..W-1 is stored, none is stored twice, and at the end of the line every
\* position has been stored; in place too.
C22_SlidingWindow ==
    call.op = "box_blur"
    => /\ ret.stored
          => LET p == ret.offset
                 sum == ChannelSum(SectionLine,
                                   Max(0, p + call.k \div 2 - call.k + 1),
                                   Min(call.n - 1, p + call.k \div 2))
             IN  /\ arg.sum_r = sum.r
                 /\ arg.sum_g = sum.g
                 /\ arg.sum_b = sum.b
                 /\ arg.sum_a = sum.a
       /\ \A j \in 1..Len(ret.stores) : ret.stores[j] \in 0..(call.n - 1)
       /\ \A i \in 1..Len(ret.stores), j \in 1..Len(ret.stores) :
            i # j => ret.stores[i] # ret.stores[j]
       /\ (arg.line < call.lines /\ arg.i >= call.n + call.k)
          => {ret.stores[j] : j \in 1..Len(ret.stores)} = 0..(call.n - 1)

\* The last position of a column is stored by the vertical pass of the
\* second box blur, in place, with kernel 3: the window is cut at the end.
C22_Witness ==
    /\ call.op = "box_blur"
    /\ call.in = call.out
    /\ call.section = 3
    /\ call.k = 3
    /\ ret.stored
    /\ ret.offset = call.n - 1
    /\ arg.sum_a > 0
    /\ arg.sum_a < 3 * 255

\* C21 as amended: in every box-blur pass each stored channel is the sum of
\* the window's in-bounds pixels divided by the effective kernel size
\* k = min(floor(sigma * 1.8799712 + 0.5), 512, length of the line), the
\* length being the width in a row pass and the height in a column pass.
C21_DivisorEffectiveKernel ==
    (call.op = "box_blur" /\ ret.stored)
    => /\ call.k = Min(FullKernel, call.n)
       /\ StoredWord = BoxAt(SectionLine, call.n, call.k, ret.offset)

\* C21 as stated: each stored channel is the running sum divided by
\* K = min(floor(sigma * 1.8799712 + 0.5), 512), also when K is larger than
\* the width or the height.
C21_DivisorFullKernel ==
    (call.op = "box_blur" /\ ret.stored)
    => StoredWord = PLUTOFILTER_PACK_PIXEL(arg.sum_r \div FullKernel,
                                           arg.sum_g \div FullKernel,
                                           arg.sum_b \div FullKernel,
                                           arg.sum_a \div FullKernel)

\* A row pass with K = 512 on a row shorter than that stores a pixel with
\* alpha: the sum was divided by the length of the row.
C21_Witness ==
    /\ call.op = "box_blur"
    /\ Horizontal(call.section)
    /\ FullKernel = PLUTOFILTER_MAX_KERNEL_SIZE
    /\ call.k = call.n
    /\ ret.stored
    /\ PLUTOFILTER_ALPHA(StoredWord) > 0

\* C23: the kernel of a pass is at most 512 and at most the length of its
\* lines, every ring index i % k is in 0..511, and no iteration (so no
\* modulo) runs with kernel 0; surfaces of width 0 or height 0 included.
C23_KernelBounds ==
    call.op = "box_blur"
    => /\ call.k <= PLUTOFILTER_MAX_KERNEL_SIZE
       /\ call.k <= call.n
       /\ (arg.line < call.lines /\ arg.i < call.n + call.k) => call.k > 0
       /\ ret.index # -1
          => /\ ret.modulus > 0
             /\ ret.index \in 0..(PLUTOFILTER_MAX_KERNEL_SIZE - 1)
             /\ ret.index < call.k

\* A row pass whose kernel 512 was cut to the width uses the last ring slot
\* of the cut kernel.
C23_Witness ==
    /\ call.op = "box_blur"
    /\ Horizontal(call.section)
    /\ call.kernel_width = PLUTOFILTER_MAX_KERNEL_SIZE
    /\ call.k = call.n
    /\ ret.index = call.k - 1

\* C29: in every row and column pass no ring slot is read before the line
\* wrote it, the slots 0..k-1 are all written when the first loop ends, and
\* the memory the blur leaves is the one it leaves with any other initial
\* ring contents.
C29_RingContentsIrrelevant ==
    /\ call.op = "box_blur"
       => /\ ~ret.read_unwritten
          /\ arg.i >= call.k => ret.written = 0..(call.k - 1)
    /\ call.op \in {"blurred", "copied"}
       => \A junk \in RingJunk \cup {Sentinel} :
            mem = plutofilter_gaussian_blur(pre, call.in, call.out,
                                            call.std_deviation_x,
                                            call.std_deviation_y,
                                            RingOf(junk))

\* An in-place blur with both kernels 512 that started with a ring of
\* all-ones words has returned and changed the memory.
C29_Witness ==
    /\ call.op = "blurred"
    /\ call.ring0 = RingOf(<<U16 - 1, U16 - 1>>)
    /\ call.in = call.out
    /\ call.kernel_width = PLUTOFILTER_MAX_KERNEL_SIZE
    /\ call.kernel_height = PLUTOFILTER_MAX_KERNEL_SIZE
    /\ mem # pre

====
